---- MODULE Spec2Model ----
(***************************************************************************)
(* A model of the hibp-index crate: the indexed key-set file, its          *)
(* streaming builder (index/builder.rs, index/table.rs), its reader        *)
(* (index/reader.rs, index/table_helper.rs, index/key_suffix.rs,           *)
(* index/prefix.rs) and the bit-level prefix/suffix split (data/prefix.rs).*)
(*                                                                         *)
(* Bytes are naturals in 0..255.  Byte strings are sequences of bytes.     *)
(* An Option is the empty sequence (None) or a one-element sequence.       *)
(* A u32 bucket prefix ("unshifted" index) is kept as its upper 24 bits    *)
(* (value >> 8): TLC's integers are 32-bit signed, and because the depth   *)
(* is at most 24 the low 8 bits of every masked prefix, mask and step are  *)
(* zero.  Overflow of a u32 is therefore overflow past 2^24 here.          *)
(*                                                                         *)
(* Further sections model the hash list (index/hashlist.rs), the paged     *)
(* reader (buf_read/mod.rs, buf_read/read_at.rs) over a file kept by its   *)
(* length, where a u64 position is kept on 30 bits and an i64 offset on    *)
(* the 30 bits of its two's complement, and the hex digits of a bit range  *)
(* (data/hex.rs).                                                          *)
(***************************************************************************)
EXTENDS Integers, Sequences, FiniteSets, TLC

VARIABLES
    phase,      \* where the build / read life cycle stands
    builder,    \* Builder: key_size, payload_size, table (TableBuilder)
    database,   \* the sink / file: data bytes, compressed table, trailer
    wlog,       \* every write_all call the sink received, in order
    added,      \* history: the (key, payload) pairs add_entry accepted
    index,      \* Index: the opened reader (header fields and table)
    reader,     \* the stateful reader in use, if any: IndexWalk, LimPrefixRange,
                \* BufReader or TypedListReader
    res         \* outcome of the last operation

vars == <<phase, builder, database, wlog, added, index, reader, res>>

---------------------------------------------------------------------------
(* Bounds and input sets *)

\* number of add_entry calls in one build
MaxEntries == 2

\* byte values keys are made of: 0x00, 0x81, 0xff
ByteVals == {0, 129, 255}
\* key_bytes_length of the content type handed to create
KeySizes == {0, 1, 2}
\* payload_size handed to create
PayloadSizes == {0, 1}
\* depth handed to create: 0, unaligned below 8, 8, unaligned above 8, too big
Depths == {0, 3, 8, 9, 25}

Keys(n) == [1..n -> ByteVals]
\* The payload stored with a key: the code never looks into a payload, so one
\* payload per key is enough, and it differs from key to key so that a result
\* tells which entry it was read from.
PayloadByte(key) ==
    IF Len(key) = 0 THEN 1
    ELSE 1 + (key[1] \div 64) * 4 + (key[Len(key)] \div 64)
Payloads(key, n) == {[i \in 1..n |-> PayloadByte(key)]}

---------------------------------------------------------------------------
(* Program constants *)

TABLE_MAX_DEPTH == 24
INDEX_V0_HEADER_LIMIT == 4096
\* "hash-index-v0"
INDEX_V0_MAGIC == <<104, 97, 115, 104, 45, 105, 110, 100, 101, 120, 45, 118, 48>>
NEWLINE == 10
\* name() of the content type: "NTLM"
ContentTypeName == <<78, 84, 76, 77>>
\* descriptions handed to create: "d" and "d\n"
Descriptions == {<<100>>, <<100, 10>>}

None == << >>
Some(x) == <<x>>

---------------------------------------------------------------------------
(* Byte arithmetic *)

Bit(x, i) == (x \div (2 ^ i)) % 2

\* a & b on u8
And8(a, b) ==
    Bit(a, 0) * Bit(b, 0) + 2 * Bit(a, 1) * Bit(b, 1) + 4 * Bit(a, 2) * Bit(b, 2)
    + 8 * Bit(a, 3) * Bit(b, 3) + 16 * Bit(a, 4) * Bit(b, 4) + 32 * Bit(a, 5) * Bit(b, 5)
    + 64 * Bit(a, 6) * Bit(b, 6) + 128 * Bit(a, 7) * Bit(b, 7)

\* !a on u8
Not8(a) == 255 - a

\* a | b on u8
Or8(a, b) == Not8(And8(Not8(a), Not8(b)))

\* 0xff >> n
ShrFF(n) == 255 \div (2 ^ n)

RECURSIVE AndBits(_, _, _)
AndBits(a, b, n) ==
    IF n = 0 THEN 0
    ELSE (a % 2) * (b % 2) + 2 * AndBits(a \div 2, b \div 2, n - 1)

\* &, ! and | on the upper 24 bits of a u32
And24(a, b) == AndBits(a, b, 24)
Not24(a) == (2 ^ 24 - 1) - a
Or24(a, b) == Not24(And24(Not24(a), Not24(b)))

\* (!0) << (32 - bits), for bits in 1..24
MaskOf(bits) == (2 ^ 24) - (2 ^ (24 - bits))

Min(a, b) == IF a < b THEN a ELSE b

\* slice[from..] and slice[..to] with 0-based Rust bounds
SliceFrom(s, from) == SubSeq(s, from + 1, Len(s))
SliceTo(s, to) == SubSeq(s, 1, to)

\* Ord for [u8]: -1 Less, 0 Equal, 1 Greater (lexicographic, then length)
RECURSIVE SliceCmp(_, _)
SliceCmp(a, b) ==
    IF a = << >> /\ b = << >> THEN 0
    ELSE IF a = << >> THEN -1
    ELSE IF b = << >> THEN 1
    ELSE IF Head(a) < Head(b) THEN -1
    ELSE IF Head(a) > Head(b) THEN 1
    ELSE SliceCmp(Tail(a), Tail(b))

\* Vec::resize(new_len, value)
Resize(v, n, x) ==
    IF n <= Len(v) THEN SubSeq(v, 1, n)
    ELSE v \o [i \in 1..(n - Len(v)) |-> x]

---------------------------------------------------------------------------
(* index/table.rs: Depth *)

\* Depth::new
DepthNew(depth) == IF depth > TABLE_MAX_DEPTH THEN None ELSE Some(depth)

\* Depth::table_entries
TableEntries(depth) == (2 ^ depth) + 1

\* Depth::entry_size
EntrySize(depth, key_size, payload_size) ==
    LET strip_key_prefix == depth \div 8
    IN  key_size - strip_key_prefix + payload_size

\* the first KEY_BYTES bytes of key, zero-padded, as the upper 24 bits of the
\* big-endian u32
RawOfKey(key) ==
    LET b(i) == IF i <= Len(key) THEN key[i] ELSE 0
    IN  b(1) * 65536 + b(2) * 256 + b(3)

\* Depth::prefix: Prefix { raw, depth }
DepthPrefix(depth, key) ==
    IF depth = 0 THEN [raw |-> 0, depth |-> depth]
    ELSE [raw |-> And24(RawOfKey(key), MaskOf(depth)), depth |-> depth]

\* index counting the buckets from one
PrefixIndexFromOne(p) ==
    IF p.depth = 0 THEN 0
    ELSE (p.raw \div (2 ^ (24 - p.depth))) + 1

\* Prefix::index
PrefixIndex(p) ==
    IF p.depth = 0 THEN 0
    ELSE p.raw \div (2 ^ (24 - p.depth))

\* Depth::index
DepthIndex(depth, key) == PrefixIndex(DepthPrefix(depth, key))

\* prepare_key keeping the whole key: no prefix byte is dropped
PrepareKeyNoStrip(depth, key) ==
    [mask_bits |-> ShrFF(depth % 8), key_suffix |-> key]

\* Depth::prepare_key: Suffix { mask_bits, key_suffix }
PrepareKey(depth, key) ==
    LET strip_key_prefix == depth \div 8
        partial_bits == depth % 8
    IN  [mask_bits |-> ShrFF(partial_bits), key_suffix |-> SliceFrom(key, strip_key_prefix)]

---------------------------------------------------------------------------
(* The sink: an append-only seekable stream.  data holds the header and the
   entry stream byte for byte; the DEFLATE stream of the table is kept as the
   table it encodes (flate2 and byteorder are libraries; their codecs are
   lossless), followed by the u32 length trailer. *)

EmptyDatabase == [data |-> << >>, table |-> None, trailer |-> None]

\* bytes the encoded table occupies in the file (stored, not compressed)
BlobLen(blob) == Len(blob.depth) + 8 * Len(blob.words) + blob.rest

\* Seek::stream_position of the sink
StreamPosition(db) ==
    Len(db.data)
    + (IF db.table = None THEN 0 ELSE BlobLen(db.table[1]))
    + (IF db.trailer = None THEN 0 ELSE 4)

\* one write_all call: what part of the file it belongs to, and its bytes
Write(kind, bytes) == [kind |-> kind, bytes |-> bytes]

\* WriteBytesExt::write_u32::<BE>
U32BE(x) == << (x \div 16777216) % 256, (x \div 65536) % 256, (x \div 256) % 256, x % 256 >>

RECURSIVE Flatten(_)
Flatten(ws) == IF ws = << >> THEN << >> ELSE Head(ws).bytes \o Flatten(Tail(ws))

---------------------------------------------------------------------------
(* index/table.rs: TableBuilder *)

\* TableBuilder::new
TableBuilderNew(depth) ==
    [depth |-> depth, file_offsets |-> << >>, current_index |-> None,
     previous_entry |-> << >>]

\* fill_index giving the skipped buckets the offset of the bucket before them
FillIndexRepeatLast(tb, pos, ndx) ==
    IF tb.current_index # None
       /\ (Len(tb.file_offsets) # tb.current_index[1] + 1 \/ ~(ndx >= tb.current_index[1]))
    THEN [panic |-> TRUE, tb |-> tb]
    ELSE LET target_size == ndx + 1
             last == IF tb.file_offsets = << >> THEN pos
                     ELSE tb.file_offsets[Len(tb.file_offsets)]
             offsets == IF target_size # Len(tb.file_offsets)
                        THEN Append(Resize(tb.file_offsets, target_size - 1, last), pos)
                        ELSE tb.file_offsets
         IN  [panic |-> FALSE,
              tb |-> [tb EXCEPT !.file_offsets = offsets, !.current_index = Some(ndx)]]

\* TableBuilder::fill_index; pos is database.stream_position()
FillIndex(tb, pos, ndx) ==
    IF tb.current_index # None
       /\ (Len(tb.file_offsets) # tb.current_index[1] + 1 \/ ~(ndx >= tb.current_index[1]))
    THEN [panic |-> TRUE, tb |-> tb]
    ELSE LET target_size == ndx + 1
             offsets == IF target_size # Len(tb.file_offsets)
                        THEN Resize(tb.file_offsets, target_size, pos)
                        ELSE tb.file_offsets
         IN  [panic |-> FALSE,
              tb |-> [tb EXCEPT !.file_offsets = offsets, !.current_index = Some(ndx)]]

\* the order check letting an equal key through
WriteKeyOrderedOrEqual(tb, key) == SliceCmp(tb.previous_entry, key) <= 0

\* the assertion of write_key: previous_entry < key
WriteKeyOrdered(tb, key) == SliceCmp(tb.previous_entry, key) < 0

\* TableBuilder::write_key: the new table state and the write_all calls made
WriteKey(tb, pos, key) ==
    IF tb.previous_entry # << >> /\ ~WriteKeyOrdered(tb, key)
    THEN [panic |-> TRUE, tb |-> tb, writes |-> << >>]
    ELSE LET tb1 == [tb EXCEPT !.previous_entry = key]
             ndx == DepthIndex(tb.depth, key)
             filled == FillIndex(tb1, pos, ndx)
             k_suffix == PrepareKey(tb.depth, key)
         IN  IF filled.panic THEN [panic |-> TRUE, tb |-> tb1, writes |-> << >>]
             ELSE [panic |-> FALSE, tb |-> filled.tb,
                   writes |-> << Write("entry", <<And8(k_suffix.key_suffix[1], k_suffix.mask_bits)>>),
                                 Write("entry", SliceFrom(k_suffix.key_suffix, 1)) >>]

\* close padding only the 2^depth bucket slots: no sentinel slot
TableCloseNoSentinel(tb, pos) ==
    LET offsets == Resize(tb.file_offsets, TableEntries(tb.depth) - 1, pos)
        blob == [depth |-> Some(tb.depth), words |-> offsets, rest |-> 0]
    IN  [tb |-> [tb EXCEPT !.file_offsets = offsets], blob |-> blob,
         table_size |-> BlobLen(blob)]

\* close padding the table with zero instead of the stream position
TableCloseZeroPad(tb, pos) ==
    LET offsets == Resize(tb.file_offsets, TableEntries(tb.depth), 0)
        blob == [depth |-> Some(tb.depth), words |-> offsets, rest |-> 0]
    IN  [tb |-> [tb EXCEPT !.file_offsets = offsets], blob |-> blob,
         table_size |-> BlobLen(blob)]

\* TableBuilder::close: the padded table, the encoded table and the trailer
TableClose(tb, pos) ==
    LET table_start == pos
        entries == TableEntries(tb.depth)
        offsets == Resize(tb.file_offsets, entries, table_start)
        blob == [depth |-> Some(tb.depth), words |-> offsets, rest |-> 0]
        table_size == BlobLen(blob)
    IN  [tb |-> [tb EXCEPT !.file_offsets = offsets], blob |-> blob,
         table_size |-> table_size]

---------------------------------------------------------------------------
(* index/builder.rs: Builder *)

Contains(s, b) == \E i \in 1..Len(s) : s[i] = b

HeaderWrites(description, key_size, payload_size) ==
    << Write("header", INDEX_V0_MAGIC), Write("header", <<NEWLINE>>),
       Write("header", ContentTypeName), Write("header", <<NEWLINE>>),
       Write("header", description), Write("header", <<NEWLINE>>),
       Write("header", <<key_size>>), Write("header", <<payload_size>>) >>

\* create without the check that a key byte remains after the stripped prefix
BuilderCreateNoPrefixCheck(key_size, description, payload_size, depth) ==
    IF key_size = 0 THEN [tag |-> "InvalidKeyLength", writes |-> << >>]
    ELSE IF DepthNew(depth) = None THEN [tag |-> "InvalidKeyLength", writes |-> << >>]
    ELSE IF Contains(description, NEWLINE) THEN [tag |-> "InvalidDescription", writes |-> << >>]
    ELSE [tag |-> "Ok", writes |-> HeaderWrites(description, key_size, payload_size)]

\* Builder::create: the error or Ok, and the write_all calls made before it returned
BuilderCreate(key_size, description, payload_size, depth) ==
    IF key_size = 0 THEN [tag |-> "InvalidKeyLength", writes |-> << >>]
    ELSE IF (depth \div 8) + 1 > key_size THEN [tag |-> "InvalidKeyLength", writes |-> << >>]
    ELSE IF DepthNew(depth) = None THEN [tag |-> "InvalidKeyLength", writes |-> << >>]
    ELSE IF Contains(description, NEWLINE) THEN [tag |-> "InvalidDescription", writes |-> << >>]
    ELSE LET ws == HeaderWrites(description, key_size, payload_size)
             header_size == Len(Flatten(ws))
         IN  IF header_size > INDEX_V0_HEADER_LIMIT
             THEN [tag |-> "HeaderTooBig", writes |-> ws]
             ELSE [tag |-> "Ok", writes |-> ws]

Create ==
    /\ phase = "new"
    /\ \E key_size \in KeySizes, description \in Descriptions,
          payload_size \in PayloadSizes, depth \in Depths :
          LET r == BuilderCreate(key_size, description, payload_size, depth)
          IN  /\ res' = [op |-> "create", tag |-> r.tag,
                         arg |-> <<key_size, description, payload_size, depth>>,
                         val |-> << >>]
              /\ wlog' = wlog \o r.writes
              /\ database' = [database EXCEPT !.data = @ \o Flatten(r.writes)]
              /\ IF r.tag = "Ok"
                 THEN /\ phase' = "building"
                      /\ builder' = [key_size |-> key_size, payload_size |-> payload_size,
                                     table |-> TableBuilderNew(depth)]
                 ELSE /\ phase' = "create_failed"
                      /\ UNCHANGED builder
    /\ UNCHANGED <<added, index, reader>>

\* Builder::add_entry
AddEntry ==
    /\ phase = "building"
    /\ Len(added) < MaxEntries
    /\ \E key \in Keys(builder.key_size) :
       \E payload \in Payloads(key, builder.payload_size) :
          LET w == WriteKey(builder.table, StreamPosition(database), key)
              ws == w.writes \o << Write("entry", payload) >>
          IN  /\ builder' = [builder EXCEPT !.table = w.tb]
              /\ IF w.panic
                 THEN /\ phase' = "panicked"
                      /\ UNCHANGED <<database, wlog, added>>
                 ELSE /\ phase' = "building"
                      /\ wlog' = wlog \o ws
                      /\ database' = [database EXCEPT !.data = @ \o Flatten(ws)]
                      /\ added' = Append(added, <<key, payload>>)
              /\ res' = [op |-> "add_entry", tag |-> IF w.panic THEN "panic" ELSE "Ok",
                         arg |-> <<key, payload>>, val |-> << >>]
    /\ UNCHANGED <<index, reader>>

\* finish writing the length trailer ahead of the table
FinishTrailerFirst ==
    /\ phase = "building"
    /\ LET c == TableClose(builder.table, StreamPosition(database))
       IN  /\ builder' = [builder EXCEPT !.table = c.tb]
           /\ database' = [database EXCEPT !.table = Some(c.blob),
                                           !.trailer = Some(c.table_size)]
           /\ wlog' = wlog \o << Write("trailer", U32BE(c.table_size)),
                                 Write("table", c.blob.depth) >>
    /\ phase' = "finished"
    /\ res' = [op |-> "finish", tag |-> "Ok", arg |-> << >>, val |-> << >>]
    /\ UNCHANGED <<added, index, reader>>

\* Builder::finish; the table's write is logged by its first byte, the depth
Finish ==
    /\ phase = "building"
    /\ LET c == TableClose(builder.table, StreamPosition(database))
       IN  /\ builder' = [builder EXCEPT !.table = c.tb]
           /\ database' = [database EXCEPT !.table = Some(c.blob),
                                           !.trailer = Some(c.table_size)]
           /\ wlog' = wlog \o << Write("table", c.blob.depth),
                                 Write("trailer", U32BE(c.table_size)) >>
    /\ phase' = "finished"
    /\ res' = [op |-> "finish", tag |-> "Ok", arg |-> << >>, val |-> << >>]
    /\ UNCHANGED <<added, index, reader>>

---------------------------------------------------------------------------
(* The file as the reader sees it *)

\* byte i (0-based) of the encoded table: the depth byte, then big-endian u64s
BlobByte(blob, i) ==
    IF i = 0 THEN blob.depth[1]
    ELSE LET w == (i - 1) \div 8
             j == (i - 1) % 8
         IN  IF w >= Len(blob.words) \/ j < 4 THEN 0
             ELSE (blob.words[w + 1] \div (256 ^ (7 - j))) % 256

\* FileLen::file_len
FileLen(db) == StreamPosition(db)

\* byte at file offset pos (0-based, pos < FileLen)
FileByte(db, pos) ==
    IF pos < Len(db.data) THEN db.data[pos + 1]
    ELSE IF db.table # None /\ pos < Len(db.data) + BlobLen(db.table[1])
         THEN BlobByte(db.table[1], pos - Len(db.data))
    ELSE LET j == pos - (FileLen(db) - 4)
         IN  IF j = 0 THEN 0 ELSE (db.trailer[1] \div (256 ^ (3 - j))) % 256

\* Read::read_exact on the paged reader positioned at pos
ReadExact(db, pos, n) ==
    IF pos + n > FileLen(db) THEN [ok |-> FALSE, bytes |-> << >>]
    ELSE [ok |-> TRUE, bytes |-> [i \in 1..n |-> FileByte(db, pos + i - 1)]]

---------------------------------------------------------------------------
(* index/table.rs: Table::open *)

\* the decoding without the pass over the offsets
TableDecodeUnordered(blob) ==
    IF blob.depth = None THEN [tag |-> "IOError", table |-> None]
    ELSE LET depth == blob.depth[1]
         IN  IF DepthNew(depth) = None THEN [tag |-> "InvalidDepth", table |-> None]
             ELSE LET entries == TableEntries(depth)
                  IN  IF Len(blob.words) < entries
                      THEN [tag |-> "IOError", table |-> None]
                      ELSE IF Len(blob.words) > entries \/ blob.rest > 0
                      THEN [tag |-> "TooMuchTableData", table |-> None]
                      ELSE [tag |-> "Ok",
                            table |-> Some([depth |-> depth, file_offsets |-> blob.words])]

\* the decoding half of Table::open: blob is the decompressed table stream
TableDecode(blob) ==
    IF blob.depth = None THEN [tag |-> "IOError", table |-> None]
    ELSE LET depth == blob.depth[1]
         IN  IF DepthNew(depth) = None THEN [tag |-> "InvalidDepth", table |-> None]
             ELSE LET entries == TableEntries(depth)
                  IN  IF Len(blob.words) < entries
                      THEN [tag |-> "IOError", table |-> None]
                      ELSE IF Len(blob.words) > entries \/ blob.rest > 0
                      THEN [tag |-> "TooMuchTableData", table |-> None]
                      ELSE IF \E i \in 1..(entries - 1) : blob.words[i] > blob.words[i + 1]
                      THEN [tag |-> "InvalidTableOffsets", table |-> None]
                      ELSE [tag |-> "Ok",
                            table |-> Some([depth |-> depth, file_offsets |-> blob.words])]

\* Table::open: locate the encoded table through the trailer, then decode it
TableOpen(db) ==
    IF db.trailer = None \/ db.table = None THEN [tag |-> "IOError", table |-> None]
    ELSE IF db.trailer[1] # BlobLen(db.table[1]) THEN [tag |-> "IOError", table |-> None]
    ELSE TableDecode(db.table[1])

\* Table::lookup / Table::lookup_prefix: Range { start, end }
TableLookupIndex(table, start) ==
    [start |-> table.file_offsets[start + 1], end |-> table.file_offsets[start + 2]]

TableLookup(table, key) == TableLookupIndex(table, DepthIndex(table.depth, key))

---------------------------------------------------------------------------
(* index/depth.rs, index/reader.rs: Index::open *)

\* Depth::valid_key_size
ValidKeySize(depth, key_bytes) ==
    IF key_bytes = 0 THEN FALSE
    ELSE IF (depth \div 8) + 1 > key_bytes THEN FALSE
    ELSE TRUE

\* BufRead::read_line on header.take(limit): the bytes from pos up to and
\* including the first newline, or up to the limit or the end of the data
ReadLine(bytes, pos, limit) ==
    LET end == Min(Len(bytes), limit)
        nl == {i \in (pos + 1)..end : bytes[i] = NEWLINE}
        last == IF nl = {} THEN end ELSE CHOOSE i \in nl : \A j \in nl : i <= j
    IN  SubSeq(bytes, pos + 1, last)

\* the UTF-8 check of read_line into a String, on the bytes that occur here:
\* ASCII, and bytes from 0x80 on that never follow a lead byte
IsUtf8(line) == \A i \in 1..Len(line) : line[i] < 128

EndsWithNewline(line) == line # << >> /\ line[Len(line)] = NEWLINE

\* a check of the name that lets the space through
IsAsciiGraphicOrSpace(b) == b >= 32 /\ b <= 126

\* u8::is_ascii_graphic
IsAsciiGraphic(b) == b >= 33 /\ b <= 126

\* Index::open
IndexOpen(db) ==
    LET limit == INDEX_V0_HEADER_LIMIT
        magic == ReadLine(db.data, 0, limit)
        key_type == ReadLine(db.data, Len(magic), limit)
        description == ReadLine(db.data, Len(magic) + Len(key_type), limit)
        hdr == Len(magic) + Len(key_type) + Len(description)
        fail(t) == [tag |-> t, index |-> None]
    IN  IF ~IsUtf8(magic) \/ ~IsUtf8(key_type) \/ ~IsUtf8(description)
        THEN fail("IOError")
        ELSE IF ~EndsWithNewline(magic) \/ ~EndsWithNewline(key_type)
           \/ ~EndsWithNewline(description)
        THEN fail("InvalidHeader")
        ELSE IF SliceTo(magic, Len(magic) - 1) # INDEX_V0_MAGIC THEN fail("InvalidHeader")
        ELSE IF \E i \in 1..(Len(key_type) - 1) : ~IsAsciiGraphic(key_type[i])
        THEN fail("KeyTypeError")
        ELSE IF hdr + 2 > Len(db.data) \/ hdr + 2 > limit THEN fail("IOError")
        ELSE LET key_size == db.data[hdr + 1]
                 payload_size == db.data[hdr + 2]
                 t == TableOpen(db)
             IN  IF t.tag # "Ok" THEN fail(t.tag)
                 ELSE IF ~ValidKeySize(t.table[1].depth, key_size)
                 THEN fail("InvalidKeyLength")
                 ELSE [tag |-> "Ok",
                       index |-> Some([key_type |-> SliceTo(key_type, Len(key_type) - 1),
                                       description |-> SliceTo(description, Len(description) - 1),
                                       key_size |-> key_size, payload_size |-> payload_size,
                                       table |-> t.table[1]])]

Open ==
    /\ phase = "finished"
    /\ LET r == IndexOpen(database)
       IN  /\ index' = r.index
           /\ phase' = IF r.tag = "Ok" THEN "opened" ELSE "open_failed"
           /\ res' = [op |-> "open", tag |-> r.tag, arg |-> << >>, val |-> << >>]
    /\ UNCHANGED <<builder, database, wlog, added, reader>>

---------------------------------------------------------------------------
(* index/key_suffix.rs: KeySuffix *)

\* KeySuffix::new
KeySuffixNew(depth, key) ==
    LET strip_key_prefix == depth \div 8
        suffix == SliceFrom(key, strip_key_prefix)
        partial_bits == depth % 8
        mask_bits == ShrFF(partial_bits)
    IN  [depth |-> depth, key_first_byte |-> And8(suffix[1], mask_bits),
         key_suffix |-> SliceFrom(suffix, 1)]

\* KeySuffix::new_from_entry
KeySuffixNewFromEntry(depth, entry_key) ==
    LET partial_bits == depth % 8
        mask_bits == ShrFF(partial_bits)
    IN  [depth |-> depth, key_first_byte |-> And8(entry_key[1], mask_bits),
         key_suffix |-> SliceFrom(entry_key, 1)]

\* PartialOrd for KeySuffix: None, or Some(-1 | 0 | 1)
KeySuffixPartialCmp(a, b) ==
    IF a.depth # b.depth THEN None
    ELSE IF Len(a.key_suffix) # Len(b.key_suffix) THEN None
    ELSE IF a.key_first_byte < b.key_first_byte THEN Some(-1)
    ELSE IF a.key_first_byte > b.key_first_byte THEN Some(1)
    ELSE Some(SliceCmp(a.key_suffix, b.key_suffix))

\* KeySuffix::compare_entry: None stands for the failed expect (a panic)
CompareEntry(suffix, entry_key) ==
    KeySuffixPartialCmp(suffix, KeySuffixNewFromEntry(suffix.depth, entry_key))

---------------------------------------------------------------------------
(* index/table_helper.rs: ForwardSearch, ForwardRangeSearch *)

\* ForwardSearch::new
ForwardSearchNew(depth, key) ==
    [suffix |-> KeySuffixNew(depth, key), key_len |-> Len(key)]

\* where ForwardSearch::test_entry splits an entry into key and payload
SplitPoint(fs) == fs.key_len

\* ForwardSearch::test_entry
TestEntry(fs, entry) ==
    IF SplitPoint(fs) > Len(entry) THEN [tag |-> "panic", payload |-> << >>]
    ELSE LET entry_key == SliceTo(entry, SplitPoint(fs))
             entry_payload == SliceFrom(entry, SplitPoint(fs))
             c == CompareEntry(fs.suffix, entry_key)
         IN  IF c = None THEN [tag |-> "panic", payload |-> << >>]
             ELSE IF c[1] = 0 THEN [tag |-> "Match", payload |-> entry_payload]
             ELSE IF c[1] = 1 THEN [tag |-> "Continue", payload |-> << >>]
             ELSE [tag |-> "Break", payload |-> << >>]

\* ForwardRangeSearch::new
ForwardRangeSearchNew(key, key_bits) ==
    IF key_bits = 0 THEN [prefix |-> << >>, prefix_end |-> 0, mask_end_bits |-> 0]
    ELSE LET len_clipped == key_bits \div 8
             partial_bits == key_bits % 8
         IN  IF partial_bits > 0
             THEN LET mask_end_bits == Not8(ShrFF(partial_bits))
                  IN  [prefix |-> SliceTo(key, len_clipped),
                       prefix_end |-> And8(key[len_clipped + 1], mask_end_bits),
                       mask_end_bits |-> mask_end_bits]
             ELSE [prefix |-> SliceTo(key, len_clipped - 1),
                   prefix_end |-> key[len_clipped], mask_end_bits |-> 255]

\* ForwardRangeSearch::test_key
TestKey(frs, key) ==
    LET n == Len(frs.prefix)
        c1 == SliceCmp(frs.prefix, SliceTo(key, n))
        m == And8(key[n + 1], frs.mask_end_bits)
        c == IF c1 # 0 THEN c1
             ELSE IF frs.prefix_end < m THEN -1
             ELSE IF frs.prefix_end > m THEN 1 ELSE 0
    IN  IF c = 0 THEN "Match" ELSE IF c = 1 THEN "Continue" ELSE "Break"

---------------------------------------------------------------------------
(* index/prefix.rs: LimPrefix, LimPrefixRange *)

\* byte i (0-based) of raw.to_be_bytes(); byte 3 is always zero
RawByte(raw, i) == IF i >= 3 THEN 0 ELSE (raw \div (256 ^ (2 - i))) % 256

\* LimPrefix::new
LimPrefixNew(depth, key) ==
    IF depth = 0 THEN [raw |-> 0, depth |-> depth]
    ELSE [raw |-> And24(RawOfKey(key), MaskOf(depth)), depth |-> depth]

\* LimPrefix::index
LimPrefixIndex(p) ==
    IF p.depth = 0 THEN 0
    ELSE p.raw \div (2 ^ (24 - p.depth))

\* LimPrefix::set_key_prefix
SetKeyPrefix(p, key) ==
    LET full_prefix_bytes == p.depth \div 8
        partial_bits == p.depth % 8
        mask_bits == ShrFF(partial_bits)
    IN  [i \in 1..Len(key) |->
            IF i <= full_prefix_bytes THEN RawByte(p.raw, i - 1)
            ELSE IF i = full_prefix_bytes + 1 /\ partial_bits # 0
                 THEN Or8(And8(key[i], mask_bits),
                          And8(RawByte(p.raw, full_prefix_bytes), Not8(mask_bits)))
            ELSE key[i]]

\* LimPrefixRange::new
LimPrefixRangeNew(depth, key, key_bits) ==
    IF depth = 0 THEN [first |-> Some(0), last |-> 0, step |-> 1, depth |-> depth]
    ELSE LET mask == MaskOf(depth)
             step == 2 ^ (24 - depth)
         IN  IF key_bits = 0
             THEN [first |-> Some(0), last |-> mask, step |-> step, depth |-> depth]
             ELSE LET ndx == And24(RawOfKey(key), mask)
                  IN  IF key_bits < depth
                      THEN LET key_mask == MaskOf(key_bits)
                               ndx2 == And24(ndx, key_mask)
                               last == Or24(ndx2, And24(mask, Not24(key_mask)))
                           IN  [first |-> Some(ndx2), last |-> last, step |-> step,
                                depth |-> depth]
                      ELSE [first |-> Some(ndx), last |-> ndx, step |-> step,
                            depth |-> depth]

\* u32::checked_add on the upper 24 bits
CheckedAdd(a, b) == IF a + b > (2 ^ 24) - 1 THEN None ELSE Some(a + b)

\* next stopping one prefix short of last
LimPrefixRangeNextExclusive(r) ==
    IF r.first = None THEN [range |-> r, item |-> None]
    ELSE LET current == r.first[1]
         IN  IF current < r.last
             THEN [range |-> [r EXCEPT !.first = CheckedAdd(current, r.step)],
                   item |-> Some([raw |-> current, depth |-> r.depth])]
             ELSE [range |-> r, item |-> None]

\* LimPrefixRange::next: the range after the call and the item
LimPrefixRangeNext(r) ==
    IF r.first = None THEN [range |-> r, item |-> None]
    ELSE LET current == r.first[1]
         IN  IF current <= r.last
             THEN [range |-> [r EXCEPT !.first = CheckedAdd(current, r.step)],
                   item |-> Some([raw |-> current, depth |-> r.depth])]
             ELSE [range |-> r, item |-> None]

\* u32::checked_sub
CheckedSub(a, b) == IF a < b THEN None ELSE Some(a - b)

\* next_back leaving the range as it is when last - step underflows
LimPrefixRangeNextBackNoStop(r) ==
    IF r.first = None THEN [range |-> r, item |-> None]
    ELSE IF r.first[1] <= r.last
    THEN LET current == r.last
             last == CheckedSub(r.last, r.step)
         IN  [range |-> IF last = None THEN r ELSE [r EXCEPT !.last = last[1]],
              item |-> Some([raw |-> current, depth |-> r.depth])]
    ELSE [range |-> r, item |-> None]

\* LimPrefixRange::next_back: the range after the call and the item
LimPrefixRangeNextBack(r) ==
    IF r.first = None THEN [range |-> r, item |-> None]
    ELSE IF r.first[1] <= r.last
    THEN LET current == r.last
             last == CheckedSub(r.last, r.step)
         IN  [range |-> IF last = None THEN [r EXCEPT !.first = None]
                        ELSE [r EXCEPT !.last = last[1]],
              item |-> Some([raw |-> current, depth |-> r.depth])]
    ELSE [range |-> r, item |-> None]

\* LimPrefixRange::len, the outcomes the build can give: last - first is a
\* subtraction of u32 that panics with overflow checks and wraps without
LimPrefixRangeLen(r) ==
    IF r.first = None THEN {[tag |-> "Ok", val |-> 0]}
    ELSE IF r.last >= r.first[1]
    THEN {[tag |-> "Ok", val |-> 1 + ((r.last - r.first[1]) \div r.step)]}
    ELSE {[tag |-> "panic", val |-> 0],
          [tag |-> "Ok", val |-> 1 + (((r.last - r.first[1]) + (2 ^ 24)) \div r.step)]}

---------------------------------------------------------------------------
(* index/reader.rs: IndexLookup *)

\* IndexLookup::new without the check of the bucket length
IndexLookupNewUnchecked(ix, key) ==
    LET forward_search == ForwardSearchNew(ix.table.depth, key)
        entry_size == EntrySize(ix.table.depth, ix.key_size, ix.payload_size)
        range == TableLookup(ix.table, key)
        length == range.end - range.start
    IN  [position |-> range.start, entry_size |-> entry_size,
         forward_search |-> forward_search,
         num_entries |-> length \div entry_size,
         err |-> None]

\* IndexLookup::new
IndexLookupNew(ix, key) ==
    LET forward_search == ForwardSearchNew(ix.table.depth, key)
        entry_size == EntrySize(ix.table.depth, ix.key_size, ix.payload_size)
        range == TableLookup(ix.table, key)
        length == range.end - range.start
    IN  [position |-> range.start, entry_size |-> entry_size,
         forward_search |-> forward_search,
         num_entries |-> IF length % entry_size # 0 THEN 0 ELSE length \div entry_size,
         err |-> IF length % entry_size # 0 THEN Some("InvalidSegmentLength") ELSE None]

\* the for loop of IndexLookup::sync_lookup, n entries left, reader at pos:
\* the result, and the read_exact calls made as (position, length) pairs
RECURSIVE LookupLoop(_, _, _, _, _)
LookupLoop(db, lk, pos, n, payload_len) ==
    IF n = 0 THEN [tag |-> "None", val |-> << >>, reads |-> << >>]
    ELSE LET rd == ReadExact(db, pos, lk.entry_size)
             read == << <<pos, lk.entry_size>> >>
         IN  IF ~rd.ok THEN [tag |-> "IOError", val |-> << >>, reads |-> read]
             ELSE LET t == TestEntry(lk.forward_search, rd.bytes)
                  IN  IF t.tag = "panic" THEN [tag |-> "panic", val |-> << >>, reads |-> read]
                      ELSE IF t.tag = "Match"
                      THEN [tag |-> "Some",
                            val |-> SliceTo(t.payload, Min(payload_len, Len(t.payload))),
                            reads |-> read]
                      ELSE IF t.tag = "Continue"
                      THEN LET r == LookupLoop(db, lk, pos + lk.entry_size, n - 1,
                                               payload_len)
                           IN  [r EXCEPT !.reads = read \o @]
                      ELSE [tag |-> "None", val |-> << >>, reads |-> read]

\* IndexLookup::sync_lookup
SyncLookup(db, lk, payload_len) ==
    IF lk.err # None THEN [tag |-> lk.err[1], val |-> << >>, reads |-> << >>]
    ELSE LookupLoop(db, lk, lk.position, lk.num_entries, payload_len)

\* TypedIndex::lookup with a payload type as long as the index's payload
TypedLookup(db, ix, key) == SyncLookup(db, IndexLookupNew(ix, key), ix.payload_size)

Lookup ==
    /\ phase = "opened"
    /\ \E key \in Keys(index[1].key_size) :
          LET r == TypedLookup(database, index[1], key)
          IN  res' = [op |-> "lookup", tag |-> r.tag, arg |-> <<key>>, val |-> r.val,
                      reads |-> r.reads]
    /\ phase' = "queried"
    /\ UNCHANGED <<builder, database, wlog, added, index, reader>>

---------------------------------------------------------------------------
(* index/reader.rs: IndexWalk *)

\* IndexWalk::new
IndexWalkNew(ix, key, key_bits) ==
    [position |-> 0,
     forward_search |-> ForwardRangeSearchNew(key, key_bits),
     prefixes |-> LimPrefixRangeNew(ix.table.depth, key, key_bits),
     entry_size |-> EntrySize(ix.table.depth, ix.key_size, ix.payload_size),
     current_prefix_num_entries |-> None]

\* the byte range of the bucket of the k-th prefix after r.first
BucketAt(table, r, k) ==
    TableLookupIndex(table, LimPrefixIndex([raw |-> r.first[1] + k * r.step,
                                            depth |-> r.depth]))

\* The first k in lo..hi whose bucket is not empty, or -1.  The offsets of an
\* opened table never decrease (Table::open rejects any other table), so the
\* buckets lo..hi are all empty exactly when the first starts where the last
\* ends.
RECURSIVE FirstNonEmpty(_, _, _, _)
FirstNonEmpty(table, r, lo, hi) ==
    IF lo > hi THEN -1
    ELSE IF BucketAt(table, r, lo).start = BucketAt(table, r, hi).end THEN -1
    ELSE IF lo = hi THEN lo
    ELSE LET mid == (lo + hi) \div 2
             left == FirstNonEmpty(table, r, lo, mid)
         IN  IF left # -1 THEN left ELSE FirstNonEmpty(table, r, mid + 1, hi)

\* The iterations of sync_walk's outer loop that load an empty bucket (other
\* than the last bucket of the range) leave nothing behind but the advanced
\* prefix iterator: this is the iterator after those calls of next().
SkipEmpty(table, r) ==
    IF r.first = None \/ r.first[1] > r.last THEN r
    ELSE LET n == ((r.last - r.first[1]) \div r.step) + 1
             k == FirstNonEmpty(table, r, 0, n - 2)
             skip == IF k = -1 THEN n - 1 ELSE k
         IN  [r EXCEPT !.first = Some(r.first[1] + skip * r.step)]

\* how many bytes of the caller's key buffer sync_walk fills from the file
WalkKeyRead(ix) == ix.key_size

\* IndexWalk::sync_walk: the walk after the call, the caller's key buffer and
\* the result; why tells the two ways of returning Ok(None) apart
RECURSIVE SyncWalk(_, _, _, _)
SyncWalk(db, ix, w, key) ==
    IF w.current_prefix_num_entries # None
    THEN LET prefix == w.current_prefix_num_entries[1][1]
             num_entries == w.current_prefix_num_entries[1][2]
             w0 == [w EXCEPT !.current_prefix_num_entries = None]
         IN  IF num_entries = 0 THEN SyncWalk(db, ix, w0, key)
             ELSE LET kn == WalkKeyRead(ix)
                      rk == ReadExact(db, w.position, kn)
                      rp == ReadExact(db, w.position + kn, ix.payload_size)
                  IN  IF ~rk.ok \/ ~rp.ok
                      THEN [walk |-> w0, key |-> key, tag |-> "IOError", val |-> << >>,
                            why |-> "Err"]
                      ELSE LET w1 == [w0 EXCEPT !.position = @ + kn + ix.payload_size]
                               key1 == SetKeyPrefix(prefix,
                                          SliceTo(key, Len(key) - kn) \o rk.bytes)
                               t == TestKey(w.forward_search, key1)
                           IN  IF t = "Match"
                               THEN [walk |-> [w1 EXCEPT !.current_prefix_num_entries =
                                                   Some(<<prefix, num_entries - 1>>)],
                                     key |-> key1, tag |-> "Some", val |-> rp.bytes,
                                     why |-> "Match"]
                               ELSE IF t = "Continue"
                               THEN SyncWalk(db, ix,
                                        [w1 EXCEPT !.current_prefix_num_entries =
                                             Some(<<prefix, num_entries - 1>>)], key1)
                               ELSE [walk |-> w1, key |-> key1, tag |-> "None",
                                     val |-> << >>, why |-> "Break"]
    ELSE LET nx == LimPrefixRangeNext(SkipEmpty(ix.table, w.prefixes))
             w0 == [w EXCEPT !.prefixes = nx.range]
         IN  IF nx.item = None
             THEN [walk |-> w0, key |-> key, tag |-> "None", val |-> << >>,
                   why |-> "End"]
             ELSE LET prefix == nx.item[1]
                      range == TableLookupIndex(ix.table, LimPrefixIndex(prefix))
                      length == range.end - range.start
                      w1 == [w0 EXCEPT !.position = range.start]
                  IN  IF length % w.entry_size # 0
                      THEN [walk |-> w1, key |-> key, tag |-> "InvalidSegmentLength",
                            val |-> << >>, why |-> "Err"]
                      ELSE SyncWalk(db, ix,
                               [w1 EXCEPT !.current_prefix_num_entries =
                                    Some(<<prefix, length \div w.entry_size>>)], key)

\* the iterator TypedIndex::lookup_range returns, run until it yields None:
\* the items it yielded, (key, payload) or an error
RECURSIVE Drain(_, _, _, _)
Drain(db, ix, w, key) ==
    LET r == SyncWalk(db, ix, w, key)
    IN  IF r.tag = "None" THEN << >>
        ELSE IF r.tag = "Some" THEN << <<r.key, r.val>> >> \o Drain(db, ix, r.walk, r.key)
        ELSE << <<r.tag>> >> \o Drain(db, ix, r.walk, r.key)

LookupRange(db, ix, key, key_bits) ==
    Drain(db, ix, IndexWalkNew(ix, key, key_bits), [i \in 1..ix.key_size |-> 0])

QueryBits(key_size) == 0..(8 * key_size)

Range ==
    /\ phase = "opened"
    /\ \E key \in Keys(index[1].key_size), key_bits \in QueryBits(index[1].key_size) :
          res' = [op |-> "lookup_range", tag |-> "Ok", arg |-> <<key, key_bits>>,
                  val |-> LookupRange(database, index[1], key, key_bits)]
    /\ phase' = "queried"
    /\ UNCHANGED <<builder, database, wlog, added, index, reader>>

Init ==
    /\ phase = "new"
    /\ builder = [key_size |-> 0, payload_size |-> 0, table |-> TableBuilderNew(0)]
    /\ database = EmptyDatabase
    /\ wlog = << >>
    /\ added = << >>
    /\ index = None
    /\ reader = None
    /\ res = [op |-> "none", tag |-> "Ok", arg |-> << >>, val |-> << >>]

Next == Create \/ AddEntry \/ Finish \/ Open \/ Lookup \/ Range

Spec == Init /\ [][Next]_vars

---------------------------------------------------------------------------
(* data/prefix.rs: Prefix<D> and Suffix<D> over a key type of SIZE bytes.
   A key is its data() slice; SIZE is its length. *)

\* key sizes of the key types split
SplitKeySizes == {1, 2}

Zeros(n) == [i \in 1..n |-> 0]

\* Prefix::new_from_raw for a key type of `size` bytes
PrefixNewFromRaw(size, raw, bits) ==
    IF ~(bits <= size * 8) \/ ~(bits <= Len(raw) * 8)
    THEN [panic |-> TRUE, key |-> << >>, bits |-> bits]
    ELSE LET octets == (bits + 7) \div 8
             need_bits == bits % 8
             mask_bits == Not8(ShrFF(need_bits))
             copied == [i \in 1..size |-> IF i <= octets THEN raw[i] ELSE 0]
             key == IF need_bits # 0
                    THEN [copied EXCEPT ![octets] = And8(@, mask_bits)]
                    ELSE copied
         IN  [panic |-> FALSE, key |-> key, bits |-> bits]

\* Prefix::new_from_key
PrefixNewFromKey(key, bits) ==
    IF ~(bits <= Len(key) * 8) THEN [panic |-> TRUE, key |-> << >>, bits |-> bits]
    ELSE PrefixNewFromRaw(Len(key), key, bits)

\* Suffix::new_from_suffix_raw for a key type of `size` bytes
SuffixNewFromSuffixRaw(size, raw, prefix_bits) ==
    LET start == prefix_bits \div 8
        truncate_bits == prefix_bits % 8
    IN  IF start > size \/ Len(raw) # size - start
           \/ (truncate_bits # 0 /\ start >= size)
        THEN [panic |-> TRUE, key |-> << >>, prefix_bits |-> prefix_bits]
        ELSE LET copied == [i \in 1..size |-> IF i <= start THEN 0 ELSE raw[i - start]]
                 key == IF truncate_bits # 0
                        THEN [copied EXCEPT ![start + 1] = And8(@, ShrFF(truncate_bits))]
                        ELSE copied
             IN  [panic |-> FALSE, key |-> key, prefix_bits |-> prefix_bits]

\* Suffix::new_from_key
SuffixNewFromKey(key, prefix_bits) ==
    IF ~(prefix_bits <= Len(key) * 8)
    THEN [panic |-> TRUE, key |-> << >>, prefix_bits |-> prefix_bits]
    ELSE SuffixNewFromSuffixRaw(Len(key), SliceFrom(key, prefix_bits \div 8), prefix_bits)

\* Prefix::unsplit: key_data[start+1..] and key_data[start] are slice and index
\* expressions on SIZE bytes; out of range they panic
PrefixUnsplit(prefix, suffix) ==
    LET size == Len(prefix.key)
        start == prefix.bits \div 8
    IN  IF prefix.bits # suffix.prefix_bits THEN [panic |-> TRUE, key |-> << >>]
        ELSE IF start + 1 > size THEN [panic |-> TRUE, key |-> << >>]
        ELSE [panic |-> FALSE,
              key |-> [i \in 1..size |->
                          IF i > start + 1 THEN suffix.key[i]
                          ELSE IF i = start + 1 THEN Or8(prefix.key[i], suffix.key[i])
                          ELSE prefix.key[i]]]

\* KeyData::split followed by Prefix::unsplit
SplitUnsplit(key, bits) ==
    LET prefix == PrefixNewFromKey(key, bits)
        suffix == SuffixNewFromKey(key, bits)
    IN  IF prefix.panic \/ suffix.panic THEN [panic |-> TRUE, key |-> << >>]
        ELSE PrefixUnsplit(prefix, suffix)

Unsplit ==
    /\ phase = "split"
    /\ LET r == SplitUnsplit(res.arg[1], res.arg[2])
       IN  res' = [res EXCEPT !.op = "unsplit",
                              !.tag = IF r.panic THEN "panic" ELSE "Ok",
                              !.val = r.key]
    /\ phase' = "unsplit"
    /\ UNCHANGED <<builder, database, wlog, added, index, reader>>

InitSplit ==
    /\ phase = "split"
    /\ builder = [key_size |-> 0, payload_size |-> 0, table |-> TableBuilderNew(0)]
    /\ database = EmptyDatabase
    /\ wlog = << >>
    /\ added = << >>
    /\ index = None
    /\ reader = None
    /\ \E size \in SplitKeySizes : \E key \in Keys(size), bits \in 0..(8 * size) :
          res = [op |-> "split", tag |-> "Ok", arg |-> <<key, bits>>, val |-> << >>]

NextSplit == Unsplit

SpecSplit == InitSplit /\ [][NextSplit]_vars

---------------------------------------------------------------------------
(* Table::open on files whose table was not written by the builder *)

\* most offsets in a crafted table
MaxWords == 6
\* depth byte of a crafted table: valid ones, the first invalid one, the last
TableDepths == {0, 1, 2, 25, 255}
\* offset values of a crafted table
OffsetVals == {0, 5, 9}
\* bytes after the last whole offset
RestBytes == {0, 1}

\* the decompressed table streams: empty, or a depth byte, offsets and a rest
TableBlobs ==
    {[depth |-> None, words |-> << >>, rest |-> 0]}
    \cup {[depth |-> Some(d), words |-> w, rest |-> r] :
             d \in TableDepths,
             w \in UNION {[1..n -> OffsetVals] : n \in 0..MaxWords},
             r \in RestBytes}

OpenTable ==
    /\ phase = "table"
    /\ LET r == TableOpen(database)
       IN  res' = [op |-> "table_open", tag |-> r.tag, arg |-> << >>, val |-> r.table]
    /\ phase' = "table_opened"
    /\ UNCHANGED <<builder, database, wlog, added, index, reader>>

InitTable ==
    /\ phase = "table"
    /\ builder = [key_size |-> 0, payload_size |-> 0, table |-> TableBuilderNew(0)]
    /\ \E blob \in TableBlobs :
          database = [data |-> << >>, table |-> Some(blob), trailer |-> Some(BlobLen(blob))]
    /\ wlog = << >>
    /\ added = << >>
    /\ index = None
    /\ reader = None
    /\ res = [op |-> "none", tag |-> "Ok", arg |-> << >>, val |-> << >>]

NextTable == OpenTable

SpecTable == InitTable /\ [][NextTable]_vars

---------------------------------------------------------------------------
(* Builder::create on its own, over a wider range of arguments *)

\* key_bytes_length of the content type: none, short, long enough for any depth
CreateKeySizes == {0, 1, 2, 3, 4, 20}
\* depth: each multiple of 8 and its neighbours up to the limit, and beyond it
CreateDepths == {0, 7, 8, 15, 16, 23, 24, 25, 31, 32, 255}
\* descriptions: "", "d", "d\n", "\nd"
CreateDescriptions == {<< >>, <<100>>, <<100, 10>>, <<10, 100>>}

CreateCall ==
    /\ phase = "create"
    /\ LET r == BuilderCreate(res.arg[1], res.arg[2], res.arg[3], res.arg[4])
       IN  /\ res' = [res EXCEPT !.op = "create", !.tag = r.tag]
           /\ wlog' = wlog \o r.writes
           /\ database' = [database EXCEPT !.data = @ \o Flatten(r.writes)]
           /\ IF r.tag = "Ok"
              THEN /\ phase' = "building"
                   /\ builder' = [key_size |-> res.arg[1], payload_size |-> res.arg[3],
                                  table |-> TableBuilderNew(res.arg[4])]
              ELSE /\ phase' = "create_failed"
                   /\ UNCHANGED builder
    /\ UNCHANGED <<added, index, reader>>

InitCreate ==
    /\ phase = "create"
    /\ builder = [key_size |-> 0, payload_size |-> 0, table |-> TableBuilderNew(0)]
    /\ database = EmptyDatabase
    /\ wlog = << >>
    /\ added = << >>
    /\ index = None
    /\ reader = None
    /\ \E key_size \in CreateKeySizes, description \in CreateDescriptions,
          payload_size \in PayloadSizes, depth \in CreateDepths :
          res = [op |-> "call", tag |-> "Ok",
                 arg |-> <<key_size, description, payload_size, depth>>, val |-> << >>]

NextCreate == CreateCall

SpecCreate == InitCreate /\ [][NextCreate]_vars

---------------------------------------------------------------------------
(* Index::open, lookup and lookup_range on files no builder wrote *)

\* most offsets in the table of a crafted file
MaxSlots == 3
\* the entry bytes of a crafted file
CraftedBody == <<0, 129, 255>>
\* n bytes 'd'
Filler(n) == [i \in 1..n |-> 100]
\* the magic line: right, another version, missing
CraftedMagics == {INDEX_V0_MAGIC \o <<NEWLINE>>,
                  SliceTo(INDEX_V0_MAGIC, Len(INDEX_V0_MAGIC) - 1) \o <<49, NEWLINE>>,
                  << >>}
\* the key-type line: "NTLM", the empty name, "N L", "N\x81"
CraftedKeyTypes == {ContentTypeName \o <<NEWLINE>>, <<NEWLINE>>,
                    <<78, 32, 76, NEWLINE>>, <<78, 129, NEWLINE>>}
\* the length of the description line that ends the header lines h bytes
\* into the file
LineEndingAt(h) == h - Len(INDEX_V0_MAGIC) - 1 - Len(ContentTypeName) - 1
\* the description line: "d", and lines that end two bytes before the header
\* limit, one byte before it, at the limit and one byte after it
CraftedDescriptions ==
    {<<100, NEWLINE>>}
    \cup {Filler(LineEndingAt(INDEX_V0_HEADER_LIMIT + d) - 1) \o <<NEWLINE>> : d \in {-2, -1, 0, 1}}
\* the depth byte of a crafted table
CraftedDepths == {0, 1, 25}
\* where an offset points, counted from the first entry byte
CraftedDeltas == 0..Len(CraftedBody)

\* the header ingredients: every key and payload size with the good lines,
\* every other choice of lines with one key and payload size
CraftedHeaders ==
    {[magic |-> INDEX_V0_MAGIC \o <<NEWLINE>>, key_type |-> ContentTypeName \o <<NEWLINE>>,
      description |-> <<100, NEWLINE>>, key_size |-> k, payload_size |-> p] :
        k \in KeySizes, p \in PayloadSizes}
    \cup {[magic |-> m, key_type |-> t, description |-> d, key_size |-> 1, payload_size |-> 0] :
            m \in CraftedMagics, t \in CraftedKeyTypes, d \in CraftedDescriptions}

\* the table ingredients: a depth byte and offsets relative to the first entry
CraftedTables ==
    {[depth |-> d, deltas |-> w] :
        d \in CraftedDepths, w \in UNION {[1..n -> CraftedDeltas] : n \in 0..MaxSlots}}

\* every table under the good lines, one good table under the other lines
CraftedFiles ==
    {f \in [header : CraftedHeaders, table : CraftedTables] :
        \/ (f.header.magic = INDEX_V0_MAGIC \o <<NEWLINE>>
                /\ f.header.key_type = ContentTypeName \o <<NEWLINE>>
                /\ f.header.description = <<100, NEWLINE>>)
        \/ f.table = [depth |-> 0, deltas |-> <<0, 1>>]}

\* the file made of the ingredients f
CraftedDatabase(f) ==
    LET lines == f.header.magic \o f.header.key_type \o f.header.description
        start == Len(lines) + 2
        blob == [depth |-> Some(f.table.depth),
                 words |-> [i \in 1..Len(f.table.deltas) |-> start + f.table.deltas[i]],
                 rest |-> 0]
    IN  [data |-> lines \o <<f.header.key_size, f.header.payload_size>> \o CraftedBody,
         table |-> Some(blob), trailer |-> Some(BlobLen(blob))]

OpenCrafted ==
    /\ phase = "crafted"
    /\ LET r == IndexOpen(database)
       IN  /\ index' = r.index
           /\ phase' = IF r.tag = "Ok" THEN "opened" ELSE "open_failed"
           /\ res' = [res EXCEPT !.op = "open", !.tag = r.tag]
    /\ UNCHANGED <<builder, database, wlog, added, reader>>

InitOpen ==
    /\ phase = "crafted"
    /\ builder = [key_size |-> 0, payload_size |-> 0, table |-> TableBuilderNew(0)]
    /\ wlog = << >>
    /\ added = << >>
    /\ index = None
    /\ reader = None
    /\ \E f \in CraftedFiles :
          /\ database = CraftedDatabase(f)
          /\ res = [op |-> "none", tag |-> "Ok", arg |-> <<f>>, val |-> << >>]

NextOpen == OpenCrafted \/ Lookup \/ Range

SpecOpen == InitOpen /\ [][NextOpen]_vars

---------------------------------------------------------------------------
(* LimPrefixRange on its own: Table::prefix_range and the calls of next *)

\* most calls of next on one range
MaxCalls == 6
\* depths: the small ones, each multiple of 8 and a neighbour, the largest
RangeDepths == {0, 1, 2, 3, 7, 8, 9, 16, 23, 24}
\* query keys: every key of one or two bytes, and longer ones
RangeKeys == Keys(1) \cup Keys(2) \cup {<<255, 255, 255>>, <<129, 0, 255, 129>>}

PrefixRangeNext ==
    /\ phase = "range"
    /\ Len(res.val) + res.nones < MaxCalls
    /\ LET nx == LimPrefixRangeNext(reader[1])
       IN  /\ reader' = Some(nx.range)
           /\ res' = IF nx.item = None
                     THEN [res EXCEPT !.tag = "None", !.nones = @ + 1]
                     ELSE [res EXCEPT !.tag = "Some",
                                      !.val = Append(@, LimPrefixIndex(nx.item[1]))]
    /\ UNCHANGED <<phase, builder, database, wlog, added, index>>

InitRange ==
    /\ phase = "range"
    /\ builder = [key_size |-> 0, payload_size |-> 0, table |-> TableBuilderNew(0)]
    /\ database = EmptyDatabase
    /\ wlog = << >>
    /\ added = << >>
    /\ index = None
    /\ \E depth \in RangeDepths, key \in RangeKeys :
          \E key_bits \in QueryBits(Len(key)) :
             /\ reader = Some(LimPrefixRangeNew(depth, key, key_bits))
             /\ res = [op |-> "prefix_range", tag |-> "Ok", arg |-> <<depth, key, key_bits>>,
                       val |-> << >>, nones |-> 0]

NextRange == PrefixRangeNext

SpecRange == InitRange /\ [][NextRange]_vars

---------------------------------------------------------------------------
(* LimPrefixRange from both ends: next, next_back and len in any order *)

DequeDepths == {0, 1, 2, 3, 24}
DequeKeys == {<<0>>, <<129>>, <<255>>, <<255, 255, 255>>}
DequeBits(depth, key) == {b \in QueryBits(Len(key)) : b <= 3 \/ b = 8 * Len(key)}

PrefixRangeNextBack ==
    /\ phase = "range"
    /\ "back" \in DOMAIN res
    /\ Len(res.val) + Len(res.back) + res.nones < MaxCalls
    /\ LET nx == LimPrefixRangeNextBack(reader[1])
       IN  /\ reader' = Some(nx.range)
           /\ res' = IF nx.item = None
                     THEN [res EXCEPT !.tag = "None", !.nones = @ + 1]
                     ELSE [res EXCEPT !.tag = "Some",
                                      !.back = Append(@, LimPrefixIndex(nx.item[1]))]
    /\ UNCHANGED <<phase, builder, database, wlog, added, index>>

\* ExactSizeIterator::len and size_hint, which returns (len, Some(len))
PrefixRangeLen ==
    /\ phase = "range"
    /\ "len" \in DOMAIN res
    /\ \E l \in LimPrefixRangeLen(reader[1]) :
          res' = [res EXCEPT !.tag = "Len", !.len = l]
    /\ UNCHANGED <<phase, builder, database, wlog, added, index, reader>>

InitDeque ==
    /\ phase = "range"
    /\ builder = [key_size |-> 0, payload_size |-> 0, table |-> TableBuilderNew(0)]
    /\ database = EmptyDatabase
    /\ wlog = << >>
    /\ added = << >>
    /\ index = None
    /\ \E depth \in DequeDepths, key \in DequeKeys :
          \E key_bits \in DequeBits(depth, key) :
             /\ reader = Some(LimPrefixRangeNew(depth, key, key_bits))
             /\ res = [op |-> "prefix_deque", tag |-> "Ok", arg |-> <<depth, key, key_bits>>,
                       val |-> << >>, back |-> << >>, nones |-> 0,
                       len |-> [tag |-> "Ok", val |-> 0]]

NextDeque == PrefixRangeNext \/ PrefixRangeNextBack \/ PrefixRangeLen

SpecDeque == InitDeque /\ [][NextDeque]_vars

---------------------------------------------------------------------------
(* The iterator of lookup_range, call by call, on built files *)

\* most calls of next on one iterator: one for every entry, and more
WalkCalls == MaxEntries + 3
\* prefix lengths of the walks: none, around the depth, the whole key
WalkBits(ix) ==
    {b \in QueryBits(ix.key_size) :
        \/ b \in {0, 8 * ix.key_size}
        \/ (b >= ix.table.depth - 1 /\ b <= ix.table.depth + 1)}

\* TypedIndex::lookup_range: the iterator holds the walk and the key buffer
WalkStart ==
    /\ phase = "opened"
    /\ \E key \in Keys(index[1].key_size) : \E key_bits \in WalkBits(index[1]) :
          /\ reader' = Some([walk |-> IndexWalkNew(index[1], key, key_bits),
                             key |-> [i \in 1..index[1].key_size |-> 0],
                             calls |-> 0])
          /\ res' = [op |-> "walk_start", tag |-> "Ok", arg |-> <<key, key_bits>>,
                     val |-> << >>, why |-> << >>]
    /\ phase' = "walking"
    /\ UNCHANGED <<builder, database, wlog, added, index>>

\* an iterator whose closure builds its walk anew on every call
WalkNextFresh ==
    /\ phase = "walking"
    /\ reader[1].calls < WalkCalls
    /\ LET r == SyncWalk(database, index[1],
                         IndexWalkNew(index[1], res.arg[1], res.arg[2]), reader[1].key)
       IN  /\ reader' = Some([walk |-> r.walk, key |-> r.key, calls |-> reader[1].calls + 1])
           /\ res' = [op |-> "walk", tag |-> r.tag, arg |-> res.arg,
                      val |-> IF r.tag = "Some" THEN <<r.key, r.val>> ELSE << >>,
                      why |-> Append(res.why, r.why)]
    /\ UNCHANGED <<phase, builder, database, wlog, added, index>>

\* Iterator::next of the iterator lookup_range returned: one call of sync_walk;
\* res.why keeps how each call so far came back
WalkNext ==
    /\ phase = "walking"
    /\ reader[1].calls < WalkCalls
    /\ LET r == SyncWalk(database, index[1], reader[1].walk, reader[1].key)
       IN  /\ reader' = Some([walk |-> r.walk, key |-> r.key, calls |-> reader[1].calls + 1])
           /\ res' = [op |-> "walk", tag |-> r.tag, arg |-> res.arg,
                      val |-> IF r.tag = "Some" THEN <<r.key, r.val>> ELSE << >>,
                      why |-> Append(res.why, r.why)]
    /\ UNCHANGED <<phase, builder, database, wlog, added, index>>

NextWalk == Create \/ AddEntry \/ Finish \/ Open \/ WalkStart \/ WalkNext

SpecWalk == Init /\ [][NextWalk]_vars

---------------------------------------------------------------------------
(* The bucket index on its own: Depth::index and LimPrefix::new(..).index() *)

\* every valid depth
IndexDepths == 0..TABLE_MAX_DEPTH
\* keys of no byte up to four bytes
IndexKeys == Keys(0) \cup Keys(1) \cup Keys(2) \cup Keys(3) \cup Keys(4)

\* Table::lookup computes the slot with Depth::index; the walk computes it
\* with LimPrefix::index
BucketIndex ==
    /\ phase = "index"
    /\ res' = [res EXCEPT !.op = "index",
                          !.val = <<DepthIndex(res.arg[1], res.arg[2]),
                                    LimPrefixIndex(LimPrefixNew(res.arg[1], res.arg[2]))>>]
    /\ phase' = "indexed"
    /\ UNCHANGED <<builder, database, wlog, added, index, reader>>

InitIndex ==
    /\ phase = "index"
    /\ builder = [key_size |-> 0, payload_size |-> 0, table |-> TableBuilderNew(0)]
    /\ database = EmptyDatabase
    /\ wlog = << >>
    /\ added = << >>
    /\ index = None
    /\ reader = None
    /\ \E depth \in IndexDepths, key \in IndexKeys :
          res = [op |-> "call", tag |-> "Ok", arg |-> <<depth, key>>, val |-> << >>]

NextIndex == BucketIndex

SpecIndex == InitIndex /\ [][NextIndex]_vars

---------------------------------------------------------------------------
(* index/hashlist.rs: the hash list, TypedListWriter and TypedListReader over
   a key type of SIZE bytes and a payload type of P::SIZE bytes.  The file is
   database.data, the writer is builder, the reader is reader. *)

\* "hash-list-v0"
HASH_LIST_V0_MAGIC == <<104, 97, 115, 104, 45, 108, 105, 115, 116, 45, 118, 48>>
HASH_LIST_V0_HEADER_LIMIT == 4096

\* K::SIZE of the key types of the lists
ListKeySizes == {1, 2}
\* descriptions handed to create: "d", "d\n", "\nd"
ListDescriptions == {<<100>>, <<100, 10>>, <<10, 100>>}
\* mtime handed to create, a chrono::DateTime<Utc>: seconds since the epoch
\* (before it, at it, after it) and the nanoseconds within the second
Mtimes == [secs : {-1, 0, 1600000000}, nanos : {0, 500000000}]

\* WriteBytesExt::write_i64::<BE> for the seconds of a DateTime within 32 bits
I64BE(x) ==
    IF x >= 0 THEN <<0, 0, 0, 0>> \o U32BE(x)
    ELSE LET y == x + 2147483647 + 1
         IN  <<255, 255, 255, 255, 128 + ((y \div 16777216) % 256)>> \o SubSeq(U32BE(y), 2, 4)

\* ReadBytesExt::read_i64::<BE> followed by Utc.timestamp_opt(.., 0).single():
\* the DateTime, or None for seconds beyond what a DateTime holds.  Eight
\* bytes whose first is neither 0x00 nor 0xFF are far beyond; otherwise the
\* bytes written here are a sign-extended 32-bit number.
TimestampOpt(b) ==
    LET low == (b[6] * 65536) + (b[7] * 256) + b[8]
    IN  IF b[1] \notin {0, 255} THEN None
        ELSE IF b[1] = 0 THEN Some([secs |-> (b[5] * 16777216) + low, nanos |-> 0])
        ELSE Some([secs |-> ((b[5] - 128) * 16777216) + low - 2147483647 - 1, nanos |-> 0])

\* str::lines().take(2).count() > 1: a newline with something after it
MoreThanOneLine(description) ==
    \E i \in 1..(Len(description) - 1) : description[i] = NEWLINE

\* Header::create: the error or Ok, and the bytes written before it returned
HeaderCreate(description, key_size, payload_size, mtime) ==
    LET magic == HASH_LIST_V0_MAGIC \o <<NEWLINE>>
    IN  IF MoreThanOneLine(description)
        THEN [tag |-> "InvalidDescription", bytes |-> magic]
        ELSE [tag |-> "Ok",
              bytes |-> magic \o ContentTypeName \o <<NEWLINE>> \o description \o <<NEWLINE>>
                        \o I64BE(mtime.secs) \o <<key_size, payload_size>>]

\* usize::div_ceil(8)
DivCeil8(n) == (n + 7) \div 8

\* TypedListWriter::create
ListWriterCreate(size, payload_size, description, mtime, prefix) ==
    LET h == HeaderCreate(description, size, payload_size, mtime)
        prefix_byte_count == DivCeil8(prefix.bits)
    IN  IF h.tag # "Ok" THEN [tag |-> h.tag, bytes |-> h.bytes, writer |-> None]
        ELSE [tag |-> "Ok",
              bytes |-> h.bytes \o <<prefix.bits>> \o SliceTo(prefix.key, prefix_byte_count),
              writer |-> Some([prefix |-> prefix, key_size |-> size,
                               payload_size |-> payload_size])]

\* add writing the whole key
ListWriterAddWholeKey(writer, key, payload) ==
    [panic |-> FALSE, bytes |-> key \o payload]

\* TypedListWriter::add: the bytes written
ListWriterAdd(writer, key, payload) ==
    LET suffix == SuffixNewFromKey(key, writer.prefix.bits)
        suffix_start == writer.prefix.bits \div 8
    IN  IF suffix.panic THEN [panic |-> TRUE, bytes |-> << >>]
        ELSE [panic |-> FALSE, bytes |-> SliceFrom(suffix.key, suffix_start) \o payload]

\* Read::read_exact on the list file at pos
ListReadExact(data, pos, n) ==
    IF pos + n > Len(data) THEN [ok |-> FALSE, bytes |-> << >>]
    ELSE [ok |-> TRUE, bytes |-> SubSeq(data, pos + 1, pos + n)]

\* Header::open: the header and the position after it
HeaderOpen(data) ==
    LET limit == HASH_LIST_V0_HEADER_LIMIT
        magic == ReadLine(data, 0, limit)
        key_type == ReadLine(data, Len(magic), limit)
        description == ReadLine(data, Len(magic) + Len(key_type), limit)
        hdr == Len(magic) + Len(key_type) + Len(description)
        fail(t) == [tag |-> t, header |-> None, pos |-> 0]
    IN  IF ~IsUtf8(magic) \/ ~IsUtf8(key_type) \/ ~IsUtf8(description)
        THEN fail("IOError")
        ELSE IF ~EndsWithNewline(magic) \/ ~EndsWithNewline(key_type)
           \/ ~EndsWithNewline(description)
        THEN fail("InvalidHeader")
        ELSE IF SliceTo(magic, Len(magic) - 1) # HASH_LIST_V0_MAGIC THEN fail("InvalidHeader")
        ELSE IF \E i \in 1..(Len(key_type) - 1) : ~IsAsciiGraphic(key_type[i])
        THEN fail("KeyTypeError")
        ELSE IF hdr + 8 > Len(data) \/ hdr + 8 > limit THEN fail("IOError")
        ELSE LET mtime == TimestampOpt(SubSeq(data, hdr + 1, hdr + 8))
             IN  IF mtime = None THEN fail("InvalidMtime")
                 ELSE IF hdr + 10 > Len(data) \/ hdr + 10 > limit THEN fail("IOError")
                 ELSE [tag |-> "Ok",
                       header |-> Some([key_type |-> SliceTo(key_type, Len(key_type) - 1),
                                        description |-> SliceTo(description,
                                                                Len(description) - 1),
                                        mtime |-> mtime[1],
                                        key_size |-> data[hdr + 9],
                                        payload_size |-> data[hdr + 10]]),
                       pos |-> hdr + 10]

\* TypedListReader::open for a key type of size bytes and a payload type of
\* payload_size bytes
ListReaderOpen(data, size, payload_size) ==
    LET h == HeaderOpen(data)
        fail(t) == [tag |-> t, reader |-> None]
    IN  IF h.tag # "Ok" THEN fail(h.tag)
        ELSE IF h.header[1].key_type # ContentTypeName THEN fail("InvalidKeyLength")
        ELSE IF h.header[1].key_size # size THEN fail("InvalidKeyLength")
        ELSE IF h.header[1].payload_size < payload_size THEN fail("InvalidKeyLength")
        ELSE IF h.pos + 1 > Len(data) THEN fail("IOError")
        ELSE LET prefix_len == data[h.pos + 1]
                 prefix_len_bytes == DivCeil8(prefix_len)
             IN  IF prefix_len_bytes >= size THEN fail("InvalidKeyLength")
                 ELSE LET rd == ListReadExact(data, h.pos + 1, prefix_len_bytes)
                      IN  IF ~rd.ok THEN fail("IOError")
                          ELSE LET key == rd.bytes \o Zeros(size - prefix_len_bytes)
                                   prefix == PrefixNewFromKey(key, prefix_len)
                               IN  IF prefix.panic THEN fail("panic")
                                   ELSE [tag |-> "Ok",
                                         reader |-> Some([pos |-> h.pos + 1 + prefix_len_bytes,
                                                          header |-> h.header[1],
                                                          prefix |-> prefix,
                                                          key_size |-> size,
                                                          payload_size |-> payload_size])]

\* TypedListReader::next_entry: the reader after the call and the item, None
\* or Some of (key, payload) or of an error
ListNextEntry(data, rd) ==
    LET skip == rd.prefix.bits \div 8
        rk == ListReadExact(data, rd.pos, rd.key_size - skip)
    IN  IF ~rk.ok THEN [reader |-> [rd EXCEPT !.pos = Len(data)], tag |-> "None", val |-> << >>]
        ELSE LET suffix == SuffixNewFromKey(Zeros(skip) \o rk.bytes, rd.prefix.bits)
                 key == IF suffix.panic THEN [panic |-> TRUE, key |-> << >>]
                        ELSE PrefixUnsplit(rd.prefix, suffix)
                 pos1 == rd.pos + rd.key_size - skip
                 rp == ListReadExact(data, pos1, rd.header.payload_size)
             IN  IF key.panic THEN [reader |-> rd, tag |-> "panic", val |-> << >>]
                 ELSE IF ~rp.ok
                 THEN [reader |-> [rd EXCEPT !.pos = Len(data)], tag |-> "IOError",
                       val |-> << >>]
                 ELSE [reader |-> [rd EXCEPT !.pos = pos1 + rd.header.payload_size],
                       tag |-> "Some",
                       val |-> <<key.key, SliceTo(rp.bytes, rd.payload_size)>>]

\* lookup that goes on past a greater entry
RECURSIVE ListLookupToEnd(_, _, _)
ListLookupToEnd(data, rd, key) ==
    LET e == ListNextEntry(data, rd)
    IN  IF e.tag = "None" THEN [reader |-> e.reader, tag |-> "None", val |-> << >>, scanned |-> 0]
        ELSE IF e.tag # "Some"
        THEN [reader |-> e.reader, tag |-> e.tag, val |-> << >>, scanned |-> 0]
        ELSE IF SliceCmp(e.val[1], key) = 0
        THEN [reader |-> e.reader, tag |-> "Some", val |-> e.val[2], scanned |-> 1]
        ELSE LET r == ListLookupToEnd(data, e.reader, key)
             IN  [r EXCEPT !.scanned = @ + 1]

\* lookup that leaves a greater entry to the next call
RECURSIVE ListLookupPeek(_, _, _)
ListLookupPeek(data, rd, key) ==
    LET e == ListNextEntry(data, rd)
    IN  IF e.tag = "None" THEN [reader |-> e.reader, tag |-> "None", val |-> << >>, scanned |-> 0]
        ELSE IF e.tag # "Some"
        THEN [reader |-> e.reader, tag |-> e.tag, val |-> << >>, scanned |-> 0]
        ELSE LET c == SliceCmp(e.val[1], key)
             IN  IF c = 0
                 THEN [reader |-> e.reader, tag |-> "Some", val |-> e.val[2], scanned |-> 1]
                 ELSE IF c > 0
                 THEN [reader |-> rd, tag |-> "None", val |-> << >>, scanned |-> 0]
                 ELSE LET r == ListLookupPeek(data, e.reader, key)
                      IN  [r EXCEPT !.scanned = @ + 1]

\* TypedListReader::lookup: the reader after the call, the result and the
\* number of entries read
RECURSIVE ListLookup(_, _, _)
ListLookup(data, rd, key) ==
    LET e == ListNextEntry(data, rd)
    IN  IF e.tag = "None" THEN [reader |-> e.reader, tag |-> "None", val |-> << >>, scanned |-> 0]
        ELSE IF e.tag # "Some"
        THEN [reader |-> e.reader, tag |-> e.tag, val |-> << >>, scanned |-> 0]
        ELSE LET c == SliceCmp(e.val[1], key)
             IN  IF c = 0
                 THEN [reader |-> e.reader, tag |-> "Some", val |-> e.val[2], scanned |-> 1]
                 ELSE IF c > 0
                 THEN [reader |-> e.reader, tag |-> "None", val |-> << >>, scanned |-> 1]
                 ELSE LET r == ListLookup(data, e.reader, key)
                      IN  [r EXCEPT !.scanned = @ + 1]

\* the lists are written, then read: entries up to MaxEntries, calls of
\* next_entry up to one past the end of the file and one more
ListCalls == MaxEntries + 2

ListCreate ==
    /\ phase = "list_new"
    /\ \E size \in ListKeySizes, payload_size \in PayloadSizes,
          description \in ListDescriptions, mtime \in Mtimes :
          \E key \in Keys(size), bits \in 0..(8 * size) :
             LET prefix == PrefixNewFromKey(key, bits)
                 r == ListWriterCreate(size, payload_size, description, mtime, prefix)
             IN  /\ res' = [op |-> "list_create", tag |-> r.tag,
                            arg |-> <<description, mtime, prefix>>, val |-> << >>]
                 /\ database' = [database EXCEPT !.data = @ \o r.bytes]
                 /\ IF r.tag = "Ok"
                    THEN /\ phase' = "list_writing"
                         /\ builder' = r.writer[1]
                    ELSE /\ phase' = "list_create_failed"
                         /\ UNCHANGED builder
    /\ UNCHANGED <<wlog, added, index, reader>>

\* add is called with keys under the prefix of the list, in ascending order
ListAdd ==
    /\ phase = "list_writing"
    /\ Len(added) < MaxEntries
    /\ \E key \in Keys(builder.key_size) :
          /\ PrefixNewFromKey(key, builder.prefix.bits) = builder.prefix
          /\ added # << >> => SliceCmp(added[Len(added)][1], key) < 0
          /\ \E payload \in Payloads(key, builder.payload_size) :
                LET r == ListWriterAdd(builder, key, payload)
                IN  /\ ~r.panic
                    /\ database' = [database EXCEPT !.data = @ \o r.bytes]
                    /\ added' = Append(added, <<key, payload>>)
                    /\ res' = [op |-> "list_add", tag |-> "Ok", arg |-> res.arg,
                               val |-> << >>]
    /\ UNCHANGED <<phase, builder, wlog, index, reader>>

\* the written file is opened with the key and payload types of the writer
ListOpen ==
    /\ phase = "list_writing"
    /\ LET r == ListReaderOpen(database.data, builder.key_size, builder.payload_size)
       IN  /\ reader' = r.reader
           /\ phase' = IF r.tag = "Ok" THEN "list_opened" ELSE "list_open_failed"
           /\ res' = [op |-> "list_open", tag |-> r.tag, arg |-> res.arg, val |-> << >>]
    /\ UNCHANGED <<builder, database, wlog, added, index>>

\* next_entry, again and again; res.val collects the items
ListNext ==
    /\ phase \in {"list_opened", "list_reading"}
    /\ res.op \in {"list_open", "list_next"}
    /\ (IF res.op = "list_next" THEN res.calls ELSE 0) < ListCalls
    /\ LET r == ListNextEntry(database.data, reader[1])
       IN  /\ reader' = Some(r.reader)
           /\ res' = [op |-> "list_next", tag |-> r.tag, arg |-> res.arg,
                      val |-> (IF res.op = "list_next" THEN res.val ELSE << >>)
                              \o (IF r.tag = "Some" THEN <<r.val>>
                                  ELSE IF r.tag = "None" THEN << >> ELSE << <<r.tag>> >>),
                      calls |-> (IF res.op = "list_next" THEN res.calls ELSE 0) + 1]
    /\ phase' = "list_reading"
    /\ UNCHANGED <<builder, database, wlog, added, index>>

\* lookup on the freshly opened list
ListFind ==
    /\ phase = "list_opened"
    /\ \E key \in Keys(reader[1].key_size) :
          LET r == ListLookup(database.data, reader[1], key)
          IN  /\ reader' = Some(r.reader)
              /\ res' = [op |-> "list_lookup", tag |-> r.tag, arg |-> <<key>>,
                         val |-> r.val, scanned |-> r.scanned]
    /\ phase' = "list_queried"
    /\ UNCHANGED <<builder, database, wlog, added, index>>

InitList ==
    /\ phase = "list_new"
    /\ builder = [key_size |-> 0, payload_size |-> 0, table |-> TableBuilderNew(0)]
    /\ database = EmptyDatabase
    /\ wlog = << >>
    /\ added = << >>
    /\ index = None
    /\ reader = None
    /\ res = [op |-> "none", tag |-> "Ok", arg |-> << >>, val |-> << >>]

NextList == ListCreate \/ ListAdd \/ ListOpen \/ ListNext \/ ListFind

SpecList == InitList /\ [][NextList]_vars

\* One reader used for call after call, lookup and next_entry in any order.

\* a call of lookup or of next_entry on the reader; res tells the call, its
\* result and the positions of the reader before and after it
ListCall ==
    /\ phase \in {"list_opened", "list_pass"}
    /\ \/ \E key \in Keys(reader[1].key_size) :
             LET r == ListLookup(database.data, reader[1], key)
             IN  /\ reader' = Some(r.reader)
                 /\ res' = [op |-> "list_call", tag |-> r.tag, arg |-> <<"lookup", key>>,
                            val |-> r.val, from |-> reader[1].pos, to |-> r.reader.pos]
       \/ LET r == ListNextEntry(database.data, reader[1])
          IN  /\ reader' = Some(r.reader)
              /\ res' = [op |-> "list_call", tag |-> r.tag, arg |-> <<"next_entry", << >>>>,
                         val |-> r.val, from |-> reader[1].pos, to |-> r.reader.pos]
    /\ phase' = "list_pass"
    /\ UNCHANGED <<builder, database, wlog, added, index>>

\* a list as TypedListWriter::create leaves it, for the description "d" and
\* the mtime of the epoch
InitPass ==
    /\ phase = "list_writing"
    /\ \E size \in ListKeySizes, payload_size \in PayloadSizes :
          \E key \in Keys(size), bits \in 0..(8 * size) :
             LET prefix == PrefixNewFromKey(key, bits)
                 r == ListWriterCreate(size, payload_size, <<100>>,
                                       [secs |-> 0, nanos |-> 0], prefix)
             IN  /\ r.tag = "Ok"
                 /\ database = [EmptyDatabase EXCEPT !.data = r.bytes]
                 /\ builder = r.writer[1]
                 /\ res = [op |-> "list_create", tag |-> "Ok",
                           arg |-> <<<<100>>, [secs |-> 0, nanos |-> 0], prefix>>,
                           val |-> << >>]
    /\ wlog = << >>
    /\ added = << >>
    /\ index = None
    /\ reader = None

NextPass == ListAdd \/ ListOpen \/ ListCall

SpecPass == InitPass /\ [][NextPass]_vars

---------------------------------------------------------------------------
(* buf_read/mod.rs: BufReader, the paged reader with an LRU page cache, over
   an immutable file.  The file is database.len bytes long; a buffer filled
   from it is kept as the window of the file it holds, origin and len.  The
   cache is the list of its pages, the most recently used first. *)

PAGE_SIZE_BITS == 13
PAGE_SIZE == 2 ^ PAGE_SIZE_BITS

\* u64::MAX, at the width of the positions here, 30 bits, and i64::MIN and
\* i64::MAX at the same width
PositionMax == (2 ^ 30) - 1
OffsetMin == -(2 ^ 29)
OffsetMax == (2 ^ 29) - 1
\* SeekFrom::Start arguments a page before u64::MAX, next to it, and u64::MAX
BufHighStarts == {PositionMax - PAGE_SIZE, (PositionMax - PAGE_SIZE) + 1, PositionMax}

\* file lengths: empty, less than a page, one page, a page and a partial
\* page, and one byte less than the largest
BufFileLens == {0, 5, PAGE_SIZE, PAGE_SIZE + 5, PositionMax - 1}
\* cache_capacity handed to BufReader::new
BufCapacities == {1, 2}
\* SeekFrom::Start arguments: in the first page, around its end, at and after
\* the end of the longest file, at and in a page beyond every file
BufStarts == {0, 5, 6, PAGE_SIZE - 2, PAGE_SIZE, PAGE_SIZE + 1, PAGE_SIZE + 5, PAGE_SIZE + 8,
              2 * PAGE_SIZE, (2 * PAGE_SIZE) + 6} \cup BufHighStarts
\* SeekFrom::Current and SeekFrom::End arguments
BufCurrents == {OffsetMin, -PAGE_SIZE, PAGE_SIZE, OffsetMax}
BufEnds == {OffsetMin, -PAGE_SIZE, -1, 0, 1, OffsetMax}
\* lengths of the buffers handed to read: empty, short, a page
BufLens == {0, 3, PAGE_SIZE}
\* the positions visited: the first pages and the last page before u64::MAX
BufMaxPosition == 3 * PAGE_SIZE
BufPositions(p) == p <= BufMaxPosition \/ p >= PositionMax - PAGE_SIZE

\* BufReader::new
BufReaderNew(cache_capacity) ==
    [cache |-> << >>, capacity |-> cache_capacity, position |-> 0]

\* the place of the first cached page whatever its number
CacheFindFront(cache, page) == IF cache = << >> THEN 0 ELSE 1

\* where SizedCache keeps the page, 0 if it does not
CacheFind(cache, page) ==
    IF \E i \in 1..Len(cache) : cache[i].page = page
    THEN CHOOSE i \in 1..Len(cache) : cache[i].page = page
    ELSE 0

\* SizedCache::cache_get: a hit makes the page the most recently used
CacheGet(cache, page) ==
    LET i == CacheFind(cache, page)
    IN  IF i = 0 THEN [hit |-> FALSE, cache |-> cache, buf |-> [origin |-> 0, len |-> 0]]
        ELSE [hit |-> TRUE,
              cache |-> <<cache[i]>> \o SubSeq(cache, 1, i - 1) \o SubSeq(cache, i + 1, Len(cache)),
              buf |-> cache[i].buf]

\* SizedCache::cache_set: the page becomes the most recently used and the
\* least recently used page goes when the cache is over its capacity
CacheSet(cache, capacity, page, buf) ==
    LET Other(e) == e.page # page
        all == <<[page |-> page, buf |-> buf]>> \o SelectSeq(cache, Other)
    IN  SubSeq(all, 1, Min(Len(all), capacity))

\* the outcomes of ReadAt::read_at: Ok with at most n bytes (all there are
\* when fewer are left or asked for), the error Interrupted, another error
ShortRead(n) == [kind |-> "Ok", n |-> n]
Interrupted == [kind |-> "Interrupted", n |-> 0]
OtherError == [kind |-> "Error", n |-> 0]

\* read_at_till_eof giving up at the first Interrupted
RECURSIVE ReadAtLoopNoRetry(_, _, _, _, _)
ReadAtLoopNoRetry(len, remaining, offset, total, script) ==
    IF remaining = 0 THEN [tag |-> "Ok", total |-> total, script |-> script]
    ELSE LET avail == IF offset >= len THEN 0 ELSE Min(remaining, len - offset)
             outcome == IF script = << >> THEN ShortRead(avail) ELSE Head(script)
             rest == IF script = << >> THEN << >> ELSE Tail(script)
             n == Min(outcome.n, avail)
         IN  CASE outcome.kind # "Ok" -> [tag |-> "Err", total |-> 0, script |-> rest]
               [] outcome.kind = "Ok" /\ n = 0 -> [tag |-> "Ok", total |-> total, script |-> rest]
               [] OTHER -> ReadAtLoopNoRetry(len, remaining - n, offset + n, total + n, rest)

\* the loop of ReadAt::read_at_till_eof: remaining bytes of the buffer to
\* fill, the offset of the next read_at, the bytes read so far; script is the
\* outcomes of the coming read_at calls, and after it every read_at returns
\* all the bytes there are
RECURSIVE ReadAtLoop(_, _, _, _, _)
ReadAtLoop(len, remaining, offset, total, script) ==
    IF remaining = 0 THEN [tag |-> "Ok", total |-> total, script |-> script]
    ELSE LET avail == IF offset >= len THEN 0 ELSE Min(remaining, len - offset)
             outcome == IF script = << >> THEN ShortRead(avail) ELSE Head(script)
             rest == IF script = << >> THEN << >> ELSE Tail(script)
             n == Min(outcome.n, avail)
         IN  CASE outcome.kind = "Interrupted" -> ReadAtLoop(len, remaining, offset, total, rest)
               [] outcome.kind = "Error" -> [tag |-> "Err", total |-> 0, script |-> rest]
               [] outcome.kind = "Ok" /\ n = 0 -> [tag |-> "Ok", total |-> total, script |-> rest]
               [] OTHER -> ReadAtLoop(len, remaining - n, offset + n, total + n, rest)

\* ReadAt::read_at_till_eof on the file into a buffer of n bytes: the window
\* read, or the error, and the outcomes left for later reads
ReadAtTillEof(file, n, offset) ==
    LET r == ReadAtLoop(file.len, n, offset, 0, file.script)
    IN  [tag |-> r.tag, buf |-> [origin |-> offset, len |-> r.total], script |-> r.script]

\* BufReader::load_page: the reader and the file after the call and the
\* window page[offset..], the error of the read, or a panic when offset is
\* beyond the page's bytes
LoadPage(file, br) ==
    LET page == br.position \div PAGE_SIZE
        page_offset == page * PAGE_SIZE
        offset == br.position - page_offset
        first == CacheGet(br.cache, page)
        got == ReadAtTillEof(file, PAGE_SIZE, page_offset)
        file1 == IF first.hit THEN file ELSE [file EXCEPT !.script = got.script]
        cache1 == IF first.hit THEN first.cache
                  ELSE CacheSet(br.cache, br.capacity, page, got.buf)
        second == CacheGet(cache1, page)
        nothing == [origin |-> 0, len |-> 0]
    IN  IF ~first.hit /\ got.tag = "Err"
        THEN [reader |-> br, file |-> file1, tag |-> "Err", source |-> nothing]
        ELSE IF ~second.hit
        THEN [reader |-> [br EXCEPT !.cache = cache1], file |-> file1, tag |-> "panic",
              source |-> nothing]
        ELSE IF offset > second.buf.len
        THEN [reader |-> [br EXCEPT !.cache = second.cache], file |-> file1, tag |-> "panic",
              source |-> nothing]
        ELSE [reader |-> [br EXCEPT !.cache = second.cache], file |-> file1, tag |-> "Ok",
              source |-> [origin |-> second.buf.origin + offset,
                          len |-> second.buf.len - offset]]

\* Read::read for BufReader: the reader and the file after the call and the
\* bytes copied into the buffer, as a window of the file
BufRead(file, br, buf_len) ==
    LET l == LoadPage(file, br)
        amount == Min(l.source.len, buf_len)
    IN  IF l.tag # "Ok"
        THEN [reader |-> l.reader, file |-> l.file, tag |-> l.tag, data |-> [origin |-> 0, len |-> 0]]
        ELSE [reader |-> [l.reader EXCEPT !.position = @ + amount], file |-> l.file, tag |-> "Ok",
              data |-> [origin |-> l.source.origin, len |-> amount]]

\* i64::checked_abs
CheckedAbs(offset) == IF offset = OffsetMin THEN None ELSE Some(IF offset < 0 THEN -offset ELSE offset)

\* Seek::seek with SeekFrom::Current from the position pos: the new position,
\* the error Other, or the panic of expect
SeekCurrent(pos, offset) ==
    IF offset >= 0
    THEN IF pos + offset > PositionMax THEN [tag |-> "Other", pos |-> pos]
         ELSE [tag |-> "Ok", pos |-> pos + offset]
    ELSE LET abs == CheckedAbs(offset)
         IN  IF abs = None THEN [tag |-> "panic", pos |-> pos]
             ELSE IF pos < abs[1] THEN [tag |-> "Other", pos |-> pos]
             ELSE [tag |-> "Ok", pos |-> pos - abs[1]]

\* Seek::seek for BufReader: the reader after the call, and the position
\* returned with Ok
BufSeek(file, br, whence, arg) ==
    LET orig_pos == br.position
        t == CASE whence = "Start" -> [tag |-> "Ok", pos |-> arg]
               [] whence = "Current" -> SeekCurrent(br.position, arg)
               [] OTHER -> SeekCurrent(file.len, arg)
    IN  CASE t.tag = "Ok" -> [reader |-> [br EXCEPT !.position = t.pos], tag |-> "Ok",
                              val |-> <<t.pos>>]
          [] t.tag = "Other" -> [reader |-> [br EXCEPT !.position = orig_pos], tag |-> "Other",
                                 val |-> << >>]
          [] OTHER -> [reader |-> [br EXCEPT !.position = t.pos], tag |-> "panic", val |-> << >>]

Seek ==
    /\ phase = "buf"
    /\ \E whence \in {"Start", "Current", "End"} :
          \E arg \in (CASE whence = "Start" -> BufStarts
                        [] whence = "Current" -> BufCurrents
                        [] OTHER -> BufEnds) :
             LET r == BufSeek(database, reader[1], whence, arg)
             IN  /\ BufPositions(r.reader.position)
                 /\ reader' = Some(r.reader)
                 /\ res' = [op |-> "seek", tag |-> r.tag,
                            arg |-> <<whence, arg, reader[1].position>>, val |-> r.val]
                 /\ phase' = IF r.tag = "panic" THEN "buf_panicked" ELSE phase
    /\ UNCHANGED <<builder, database, wlog, added, index>>

\* the outcomes of read_at consumed since the file was in the state before
Consumed(before, after) == SubSeq(before.script, 1, Len(before.script) - Len(after.script))

\* read; a short buffer is handed in at the positions of BufStarts only
Read ==
    /\ phase = "buf"
    /\ \E buf_len \in BufLens :
          /\ buf_len = 3 => reader[1].position \in BufStarts
          /\ LET r == BufRead(database, reader[1], buf_len)
             IN  /\ BufPositions(r.reader.position)
                 /\ reader' = Some(r.reader)
                 /\ database' = r.file
                 /\ res' = [op |-> "read", tag |-> r.tag,
                            arg |-> <<buf_len, reader[1].position, Consumed(database, r.file)>>,
                            val |-> r.data]
                 /\ phase' = IF r.tag = "panic" THEN "buf_panicked" ELSE phase
    /\ UNCHANGED <<builder, wlog, added, index>>

InitBuf ==
    /\ phase = "buf"
    /\ builder = [key_size |-> 0, payload_size |-> 0, table |-> TableBuilderNew(0)]
    /\ \E len \in BufFileLens : database = [len |-> len, script |-> << >>]
    /\ wlog = << >>
    /\ added = << >>
    /\ index = None
    /\ \E capacity \in BufCapacities : reader = Some(BufReaderNew(capacity))
    /\ res = [op |-> "none", tag |-> "Ok", arg |-> << >>, val |-> << >>]

NextBuf == Seek \/ Read

SpecBuf == InitBuf /\ [][NextBuf]_vars

\* The paged reader over a file whose read_at returns short reads and errors.
PageFileLens == {5, PAGE_SIZE + 5}
PageScripts ==
    {<<Interrupted>>, <<OtherError>>, <<ShortRead(2), Interrupted, ShortRead(1)>>,
     <<ShortRead(4), OtherError>>, <<Interrupted, Interrupted, OtherError, Interrupted>>,
     <<ShortRead(PAGE_SIZE - 1), ShortRead(3), OtherError>>}

InitPage ==
    /\ phase = "buf"
    /\ builder = [key_size |-> 0, payload_size |-> 0, table |-> TableBuilderNew(0)]
    /\ \E len \in PageFileLens : \E script \in PageScripts :
          database = [len |-> len, script |-> script]
    /\ wlog = << >>
    /\ added = << >>
    /\ index = None
    /\ reader = Some(BufReaderNew(1))
    /\ res = [op |-> "none", tag |-> "Ok", arg |-> << >>, val |-> << >>]

SpecPage == InitPage /\ [][NextBuf]_vars

---------------------------------------------------------------------------
(* Two queries on one opened index, a point lookup and a second lookup or a
   range walk, run read by read in any interleaving.  Each query owns its
   IndexLookup or IndexWalk and with it its reader's position; the index and
   the file are shared. *)

\* one iteration of the for loop of IndexLookup::sync_lookup: the lookup after
\* it and the result when the call returns
SyncLookupStep(db, lk, payload_len) ==
    IF lk.err # None
    THEN [state |-> [lk EXCEPT !.err = None], out |-> Some([tag |-> lk.err[1], val |-> << >>])]
    ELSE IF lk.num_entries = 0
    THEN [state |-> lk, out |-> Some([tag |-> "None", val |-> << >>])]
    ELSE LET rd == ReadExact(db, lk.position, lk.entry_size)
             lk1 == [lk EXCEPT !.position = @ + lk.entry_size, !.num_entries = @ - 1]
         IN  IF ~rd.ok THEN [state |-> lk, out |-> Some([tag |-> "IOError", val |-> << >>])]
             ELSE LET t == TestEntry(lk.forward_search, rd.bytes)
                  IN  CASE t.tag = "panic" ->
                              [state |-> lk1, out |-> Some([tag |-> "panic", val |-> << >>])]
                        [] t.tag = "Match" ->
                              [state |-> lk1,
                               out |-> Some([tag |-> "Some",
                                             val |-> SliceTo(t.payload,
                                                        Min(payload_len, Len(t.payload)))])]
                        [] t.tag = "Continue" -> [state |-> lk1, out |-> None]
                        [] OTHER -> [state |-> lk1, out |-> Some([tag |-> "None", val |-> << >>])]

\* one iteration of the loops of IndexWalk::sync_walk: the walk and the key
\* buffer after it and the result when the call returns
SyncWalkStep(db, ix, w, key) ==
    IF w.current_prefix_num_entries # None
    THEN LET prefix == w.current_prefix_num_entries[1][1]
             num_entries == w.current_prefix_num_entries[1][2]
             w0 == [w EXCEPT !.current_prefix_num_entries = None]
         IN  IF num_entries = 0 THEN [state |-> w0, key |-> key, out |-> None]
             ELSE LET kn == WalkKeyRead(ix)
                      rk == ReadExact(db, w.position, kn)
                      rp == ReadExact(db, w.position + kn, ix.payload_size)
                  IN  IF ~rk.ok \/ ~rp.ok
                      THEN [state |-> w0, key |-> key,
                            out |-> Some([tag |-> "IOError", val |-> << >>])]
                      ELSE LET w1 == [w0 EXCEPT !.position = @ + kn + ix.payload_size]
                               key1 == SetKeyPrefix(prefix,
                                          SliceTo(key, Len(key) - kn) \o rk.bytes)
                               t == TestKey(w.forward_search, key1)
                               more == [w1 EXCEPT !.current_prefix_num_entries =
                                             Some(<<prefix, num_entries - 1>>)]
                           IN  CASE t = "Match" ->
                                       [state |-> more, key |-> key1,
                                        out |-> Some([tag |-> "Some", val |-> rp.bytes])]
                                 [] t = "Continue" -> [state |-> more, key |-> key1, out |-> None]
                                 [] OTHER -> [state |-> w1, key |-> key1,
                                              out |-> Some([tag |-> "None", val |-> << >>])]
    ELSE LET nx == LimPrefixRangeNext(SkipEmpty(ix.table, w.prefixes))
             w0 == [w EXCEPT !.prefixes = nx.range]
         IN  IF nx.item = None
             THEN [state |-> w0, key |-> key, out |-> Some([tag |-> "None", val |-> << >>])]
             ELSE LET prefix == nx.item[1]
                      range == TableLookupIndex(ix.table, LimPrefixIndex(prefix))
                      length == range.end - range.start
                      w1 == [w0 EXCEPT !.position = range.start]
                  IN  IF length % w.entry_size # 0
                      THEN [state |-> w1, key |-> key,
                            out |-> Some([tag |-> "InvalidSegmentLength", val |-> << >>])]
                      ELSE [state |-> [w1 EXCEPT !.current_prefix_num_entries =
                                            Some(<<prefix, length \div w.entry_size>>)],
                            key |-> key, out |-> None]

\* TypedIndex::lookup as a running query
LookupQuery(ix, key) ==
    [kind |-> "lookup", arg |-> <<key>>, state |-> IndexLookupNew(ix, key), key |-> key,
     items |-> << >>, done |-> FALSE]

\* TypedIndex::lookup_range as a running query: the iterator, its key buffer
\* and the items it has yielded
WalkQuery(ix, key, key_bits) ==
    [kind |-> "walk", arg |-> <<key, key_bits>>, state |-> IndexWalkNew(ix, key, key_bits),
     key |-> [i \in 1..ix.key_size |-> 0], items |-> << >>, done |-> FALSE]

\* one step of a query: a lookup returns with its first result, a walk yields
\* keys with payloads and errors until sync_walk returns None
QueryStep(db, ix, q) ==
    IF q.kind = "lookup"
    THEN LET r == SyncLookupStep(db, q.state, ix.payload_size)
         IN  [q EXCEPT !.state = r.state,
                       !.items = IF r.out = None THEN @ ELSE <<r.out[1]>>,
                       !.done = r.out # None]
    ELSE LET r == SyncWalkStep(db, ix, q.state, q.key)
         IN  [q EXCEPT !.state = r.state, !.key = r.key,
                       !.items = CASE r.out = None -> @
                                   [] r.out[1].tag = "None" -> @
                                   [] r.out[1].tag = "Some" -> Append(@, <<r.key, r.out[1].val>>)
                                   [] OTHER -> Append(@, <<r.out[1].tag>>),
                       !.done = IF r.out = None THEN FALSE ELSE r.out[1].tag = "None"]

\* the keys asked for: the key added last and the key of zeros
ParKeys(ix) ==
    {[i \in 1..ix.key_size |-> 0]} \cup
    (IF added = << >> THEN {} ELSE {added[Len(added)][1]})

\* the second query: a lookup of the key added first, or the walk of all keys
ParSeconds(ix) ==
    {WalkQuery(ix, [i \in 1..ix.key_size |-> 0], 0)} \cup
    (IF added = << >> THEN {} ELSE {LookupQuery(ix, added[1][1])})

ParStart ==
    /\ phase = "opened"
    /\ \E key \in ParKeys(index[1]) : \E second \in ParSeconds(index[1]) :
          reader' = Some([queries |-> <<LookupQuery(index[1], key), second>>,
                          last |-> 0, switches |-> 0])
    /\ res' = [op |-> "par_start", tag |-> "Ok", arg |-> << >>, val |-> << >>]
    /\ phase' = "par"
    /\ UNCHANGED <<builder, database, wlog, added, index>>

\* a step of one query made with a reader that all queries share: its
\* position moves for every query
ParStepSharedReader ==
    /\ phase = "par"
    /\ \E i \in 1..Len(reader[1].queries) :
          /\ ~reader[1].queries[i].done
          /\ LET q == QueryStep(database, index[1], reader[1].queries[i])
             IN  /\ reader' = Some([queries |->
                                       [j \in 1..Len(reader[1].queries) |->
                                           IF j = i THEN q
                                           ELSE [reader[1].queries[j] EXCEPT
                                                    !.state.position = q.state.position]],
                                    last |-> i,
                                    switches |-> reader[1].switches +
                                        (IF reader[1].last \notin {0, i} THEN 1 ELSE 0)])
                 /\ res' = [op |-> "par_step", tag |-> "Ok", arg |-> <<i>>, val |-> q.items]
    /\ UNCHANGED <<phase, builder, database, wlog, added, index>>

\* a query that has not returned makes its next read; last and switches tell
\* how the steps of the queries were interleaved so far
ParStep ==
    /\ phase = "par"
    /\ \E i \in 1..Len(reader[1].queries) :
          /\ ~reader[1].queries[i].done
          /\ LET q == QueryStep(database, index[1], reader[1].queries[i])
             IN  /\ reader' = Some([queries |-> [reader[1].queries EXCEPT ![i] = q],
                                    last |-> i,
                                    switches |-> reader[1].switches +
                                        (IF reader[1].last \notin {0, i} THEN 1 ELSE 0)])
                 /\ res' = [op |-> "par_step", tag |-> "Ok", arg |-> <<i>>, val |-> q.items]
    /\ UNCHANGED <<phase, builder, database, wlog, added, index>>

NextPar == Create \/ AddEntry \/ Finish \/ Open \/ ParStart \/ ParStep

SpecPar == Init /\ [][NextPar]_vars

---------------------------------------------------------------------------
(* data/hex.rs, data/mod.rs: the hex digits of a bit range of a byte array *)

\* byte arrays of one and two bytes with four different nibbles
HexBytes == {18, 171, 240}
HexArrays == [1..1 -> HexBytes] \cup [1..2 -> HexBytes]

\* the lower-case hex digit of a nibble, as hex::encode_to_slice writes it
HexDigit(n) == IF n < 10 THEN 48 + n ELSE 87 + n

\* nibbles, nibble_high, nibble_low
Nibbles(byte) == <<HexDigit(byte \div 16), HexDigit(byte % 16)>>
NibbleHigh(byte) == Nibbles(byte)[1]
NibbleLow(byte) == Nibbles(byte)[2]

\* hex::encode_to_slice of a slice of bytes
RECURSIVE HexEncode(_)
HexEncode(bytes) ==
    IF bytes = << >> THEN << >> ELSE Nibbles(Head(bytes)) \o HexEncode(Tail(bytes))

\* HexRange::new: the digits str_data[..len]; e - s is a subtraction of u32
\* that overflows in a build with overflow checks and otherwise wraps to a
\* length no slice has, a panic in both
HexRangeNew(data, start, end) ==
    LET skip == (start % 8) >= 4
        first == IF skip THEN <<NibbleLow(data[(start \div 8) + 1])>> ELSE << >>
        s == (start \div 8) + (IF skip THEN 1 ELSE 0)
        e0 == (end + 7) \div 8
        cut == (end % 8) > 0 /\ (end % 8) <= 4
        e == IF cut THEN e0 - 1 ELSE e0
        final_nibble == IF cut THEN <<NibbleHigh(data[e + 1])>> ELSE << >>
        main_len == e - s
    IN  IF main_len < 0 THEN [tag |-> "panic", val |-> << >>]
        ELSE IF s + main_len > Len(data) THEN [tag |-> "panic", val |-> << >>]
        ELSE [tag |-> "Ok",
              val |-> first \o HexEncode(SubSeq(data, s + 1, s + main_len)) \o final_nibble]

\* FixedByteArray::hex_bit_range
HexBitRangeOf(data, start, end) ==
    IF ~(start <= end) \/ ~(end <= Len(data) * 8) THEN [tag |-> "panic", val |-> << >>]
    ELSE HexRangeNew(data, start, end)

HexBitRange ==
    /\ phase = "hex"
    /\ \E data \in HexArrays : \E start, end \in 0..((8 * Len(data)) + 1) :
          LET r == HexBitRangeOf(data, start, end)
          IN  res' = [op |-> "hex_bit_range", tag |-> r.tag, arg |-> <<data, start, end>>,
                      val |-> r.val]
    /\ phase' = "hexed"
    /\ UNCHANGED <<builder, database, wlog, added, index, reader>>

InitHex ==
    /\ phase = "hex"
    /\ builder = [key_size |-> 0, payload_size |-> 0, table |-> TableBuilderNew(0)]
    /\ database = EmptyDatabase
    /\ wlog = << >>
    /\ added = << >>
    /\ index = None
    /\ reader = None
    /\ res = [op |-> "none", tag |-> "Ok", arg |-> << >>, val |-> << >>]

NextHex == HexBitRange

SpecHex == InitHex /\ [][NextHex]_vars

---------------------------------------------------------------------------
(* Properties.  What a property expects is computed here from the arguments
   of the calls (added, res.arg), not through the operators above. *)

\* the bytes of the write_all calls of one kind, in the order of the calls
OfKind(kind) ==
    LET Test(w) == w.kind = kind
    IN  Flatten(SelectSeq(wlog, Test))

\* position of a kind of write in the file layout
Rank(kind) ==
    CASE kind = "header" -> 1
      [] kind = "entry" -> 2
      [] kind = "table" -> 3
      [] OTHER -> 4

\* create has returned a builder / finish has returned.  A query changes
\* neither the builder nor the file, so what holds of them is stated on the
\* states before the query.
HasBuilder == phase \in {"building", "panicked", "finished", "opened", "open_failed"}
HasFile == phase \in {"finished", "opened", "open_failed"}

\* a < b for keys of one length
KeyLess(a, b) ==
    \E i \in 1..Len(a) : a[i] < b[i] /\ \A j \in 1..(i - 1) : a[j] = b[j]

\* the key as a number, and its leading b bits
RECURSIVE KeyValue(_)
KeyValue(k) ==
    IF Len(k) = 0 THEN 0 ELSE KeyValue(SubSeq(k, 1, Len(k) - 1)) * 256 + k[Len(k)]

LeadingBits(k, b) == KeyValue(k) \div (2 ^ (8 * Len(k) - b))

\* |K| - D/8 + |P| of the build
ExpectedEntrySize ==
    builder.key_size - (builder.table.depth \div 8) + builder.payload_size

\* an entry as the file stores it: the key without its first D/8 bytes and
\* without the D % 8 leading bits of the next one, then the payload
StoredEntry(e) ==
    LET D == builder.table.depth
        rest == SubSeq(e[1], (D \div 8) + 1, Len(e[1]))
    IN  << rest[1] % (2 ^ (8 - (D % 8))) >> \o Tail(rest) \o e[2]

RECURSIVE StoredEntries(_)
StoredEntries(es) ==
    IF es = << >> THEN << >> ELSE StoredEntry(Head(es)) \o StoredEntries(Tail(es))

\* the offsets of the table in the file
FileTable == database.table[1].words

\* C1: for every valid depth, payload size and strictly ascending sequence of
\* entries, the built file opens, and lookup(k) returns Some(p) when (k, p) was
\* added and None when no entry has key k, without panicking.
C1_RoundTrip ==
    /\ phase # "open_failed"
    /\ res.op = "lookup" =>
          LET hits == {i \in 1..Len(added) : added[i][1] = res.arg[1]}
          IN  IF hits = {} THEN res.tag = "None"
              ELSE res.tag = "Some" /\ \A i \in hits : res.val = added[i][2]

\* C2: lookup_range(q, b) yields exactly the stored entries whose leading b
\* bits equal those of q, each once with its full key, in ascending key order,
\* and then None.
C2_PrefixEnumeration ==
    res.op = "lookup_range" =>
       LET Matches(e) == LeadingBits(e[1], res.arg[2]) = LeadingBits(res.arg[1], res.arg[2])
       IN  res.val = SelectSeq(added, Matches)

\* C3: for every key k and split point n in [0, 8|K|], unsplit of k.prefix(n)
\* and k.suffix(n) returns k byte for byte, without panicking.
C3_UnsplitRoundTrip ==
    res.op = "unsplit" => res.tag = "Ok" /\ res.val = res.arg[1]

\* C4: every successful add_entry appends exactly |K| - D/8 + |P| bytes to
\* the sink, and in every finished file the length of every bucket is a
\* multiple of that entry size.
C4_EntryAlignment ==
    /\ HasBuilder =>
          Len(database.data) = Len(OfKind("header")) + Len(added) * ExpectedEntrySize
    /\ HasBuilder => Len(OfKind("entry")) = Len(added) * ExpectedEntrySize
    /\ HasFile =>
          \A b \in 1..(Len(FileTable) - 1) :
             (FileTable[b + 1] - FileTable[b]) % ExpectedEntrySize = 0

\* a finished file of depth 9 with payloads that holds a bucket of two entries
C4_Witness ==
    /\ phase = "finished"
    /\ builder.table.depth = 9 /\ builder.payload_size = 1 /\ Len(added) = 2
    /\ \E b \in 1..(Len(FileTable) - 1) :
          FileTable[b + 1] - FileTable[b] = 2 * ExpectedEntrySize

\* C5: while entries are added in strictly ascending order the builder's
\* offsets never decrease from one slot to the next, and after finish there
\* are exactly 2^D + 1 of them, still never decreasing.
C5_OffsetsNonDecreasing ==
    /\ HasBuilder =>
          \A i \in 1..(Len(builder.table.file_offsets) - 1) :
             builder.table.file_offsets[i] <= builder.table.file_offsets[i + 1]
    /\ HasFile =>
          /\ Len(builder.table.file_offsets) = (2 ^ builder.table.depth) + 1
          /\ FileTable = builder.table.file_offsets

\* a finished table of depth 3 whose offsets rise twice
C5_Witness ==
    /\ phase = "finished"
    /\ builder.table.depth = 3 /\ Len(added) = 2
    /\ Len(builder.table.file_offsets) = 9
    /\ \E i, j \in 1..8 :
          /\ i < j
          /\ builder.table.file_offsets[i] < builder.table.file_offsets[j]
          /\ builder.table.file_offsets[j] < builder.table.file_offsets[9]

\* C6, as the code has it: the sentinel slot table[2^D] is the file offset at
\* which the entry stream ends, the length of the header plus the bytes
\* written by the add_entry calls; the entry stream's length is
\* table[2^D] - table[0].
C6_SentinelIsEndOffset ==
    HasFile =>
       /\ Len(FileTable) = (2 ^ builder.table.depth) + 1
       /\ FileTable[Len(FileTable)] = Len(OfKind("header")) + Len(OfKind("entry"))
       /\ FileTable[Len(FileTable)] - FileTable[1] = Len(OfKind("entry"))

\* C6, as stated: the sentinel slot table[2^D] equals the byte length of the
\* entry stream, the total number of bytes written by the add_entry calls.
C6_SentinelIsStreamLength ==
    HasFile =>
       /\ Len(FileTable) = (2 ^ builder.table.depth) + 1
       /\ FileTable[Len(FileTable)] = Len(OfKind("entry"))

\* a finished file with two entries
C6_Witness ==
    /\ phase = "finished"
    /\ Len(added) = 2
    /\ FileTable[Len(FileTable)] > FileTable[1]

\* C7: the sink receives the header first, then the entries in the order of
\* the add_entry calls, then the table, then the 4-byte big-endian length of
\* the table; nothing is written after the trailer.
C7_WriteOrder ==
    /\ \A i \in 1..(Len(wlog) - 1) : Rank(wlog[i].kind) <= Rank(wlog[i + 1].kind)
    /\ HasBuilder =>
          /\ wlog # << >> /\ wlog[1].kind = "header"
          /\ OfKind("entry") = StoredEntries(added)
          /\ database.data = OfKind("header") \o OfKind("entry")
    /\ phase \in {"new", "create_failed", "building", "panicked"} =>
          \A i \in 1..Len(wlog) : wlog[i].kind \in {"header", "entry"}
    /\ HasFile =>
          /\ Len(wlog) >= 2
          /\ wlog[Len(wlog) - 1].kind = "table"
          /\ wlog[Len(wlog)].kind = "trailer"
          /\ \A i \in 1..(Len(wlog) - 2) : wlog[i].kind \in {"header", "entry"}
          /\ Len(wlog[Len(wlog)].bytes) = 4
          /\ LET t == wlog[Len(wlog)].bytes
                 size == FileLen(database) - 4 - Len(database.data)
             IN  t[1] * 16777216 + t[2] * 65536 + t[3] * 256 + t[4] = size

\* a finished build of two entries: header, entries, table and trailer written
C7_Witness ==
    /\ phase = "finished"
    /\ Len(added) = 2
    /\ Len(OfKind("entry")) > 0
    /\ wlog[Len(wlog)].kind = "trailer"

\* an add_entry call whose key is not above the key added before it
UnorderedAddEntry ==
    /\ phase = "building"
    /\ res'.op = "add_entry"
    /\ added # << >>
    /\ ~KeyLess(added[Len(added)][1], res'.arg[1])

\* C8: an add_entry whose key is equal to or smaller than the previous key
\* aborts the build before anything is written (the sink and the offsets
\* table are as they were), so the keys of the entries in the sink are
\* strictly ascending at every point of a build.
C8_OrderEnforced ==
    /\ [](\A i \in 1..(Len(added) - 1) : KeyLess(added[i][1], added[i + 1][1]))
    /\ [](HasBuilder => database.data = OfKind("header") \o StoredEntries(added))
    /\ [][UnorderedAddEntry =>
             /\ res'.tag = "panic"
             /\ phase' = "panicked"
             /\ database' = database
             /\ wlog' = wlog
             /\ builder'.table = builder.table
             /\ added' = added]_vars

\* a build aborted by adding the key of its first entry again
C8_Witness ==
    /\ phase = "panicked"
    /\ res.op = "add_entry" /\ res.tag = "panic"
    /\ Len(added) = 1
    /\ res.arg[1] = added[1][1]

\* C9: create returns InvalidKeyLength exactly when |K| = 0, (D/8)+1 > |K| or
\* D > 24, and InvalidDescription when the key length is valid and the
\* description contains a newline; in both cases nothing has been written.
C9_CreateErrors ==
    res.op = "create" =>
       LET key_size == res.arg[1]
           description == res.arg[2]
           depth == res.arg[4]
           bad_key == key_size = 0 \/ (depth \div 8) + 1 > key_size \/ depth > 24
           newline == \E i \in 1..Len(description) : description[i] = 10
       IN  /\ (res.tag = "InvalidKeyLength") <=> bad_key
           /\ (~bad_key /\ newline) => res.tag = "InvalidDescription"
           /\ res.tag = "InvalidDescription" => newline
           /\ res.tag \in {"InvalidKeyLength", "InvalidDescription"} =>
                 database = EmptyDatabase /\ wlog = << >>

\* create refusing depth 16 for a key of two bytes
C9_Witness ==
    /\ res.op = "create" /\ res.tag = "InvalidKeyLength"
    /\ res.arg[1] = 2 /\ res.arg[4] = 16
    /\ wlog = << >>

\* C10: Table::open returns a table only if the depth byte D is at most 24,
\* the data is exactly the depth byte and 2^D + 1 offsets, and the offsets
\* never decrease; it returns InvalidDepth when D > 24, TooMuchTableData when
\* data remains after the 2^D + 1 offsets, and InvalidTableOffsets when the
\* data is exact and some offset is above the next one; so the offsets of
\* every opened table never decrease.
C10_TableOpenValidation ==
    (res.op = "table_open" /\ database.table[1].depth # None) =>
       LET blob == database.table[1]
           D == blob.depth[1]
       IN  IF D > 24 THEN res.tag = "InvalidDepth"
           ELSE LET slots == (2 ^ D) + 1
                    complete == Len(blob.words) >= slots
                    exact == Len(blob.words) = slots /\ blob.rest = 0
                    sorted == \A i \in 1..(slots - 1) : blob.words[i] <= blob.words[i + 1]
                IN  /\ res.tag = "Ok" =>
                          /\ exact /\ sorted
                          /\ res.val = Some([depth |-> D, file_offsets |-> blob.words])
                    /\ (complete /\ ~exact) => res.tag = "TooMuchTableData"
                    /\ (exact /\ ~sorted) => res.tag = "InvalidTableOffsets"
                    /\ res.tag = "InvalidDepth" => FALSE

\* a table of depth 2 refused because an offset is above the next one
C10_Witness ==
    /\ res.op = "table_open" /\ res.tag = "InvalidTableOffsets"
    /\ database.table[1].depth = Some(2)
    /\ \E i \in 1..4 : database.table[1].words[i] > database.table[1].words[i + 1]

---------------------------------------------------------------------------
(* Opening files no builder wrote *)

\* the errors IndexOpenError carries, the TableReadError ones included
OpenErrors == {"IOError", "KeyTypeError", "InvalidHeader", "InvalidKeyLength",
               "InvalidDepth", "TooMuchTableData", "InvalidTableOffsets"}

\* the three header lines of the ingredients f are well formed: the magic
\* line, a key-type name of graphic ASCII bytes, every line ending in a
\* newline inside the header limit
LinesWellFormed(f) ==
    LET h == f.header
    IN  /\ h.magic = <<104, 97, 115, 104, 45, 105, 110, 100, 101, 120, 45, 118, 48, 10>>
        /\ h.key_type # << >> /\ h.key_type[Len(h.key_type)] = 10
        /\ \A i \in 1..(Len(h.key_type) - 1) : h.key_type[i] \in 33..126
        /\ h.description # << >> /\ h.description[Len(h.description)] = 10
        /\ Len(h.magic) + Len(h.key_type) + Len(h.description) <= 4096

\* the table of the ingredients f is well formed for its key size: a depth of
\* at most 24 that leaves a key byte, 2^depth + 1 offsets that never decrease
TableWellFormed(f) ==
    LET t == f.table
    IN  /\ t.depth <= 24
        /\ (t.depth \div 8) + 1 <= f.header.key_size
        /\ Len(t.deltas) = (2 ^ t.depth) + 1
        /\ \A i \in 1..(Len(t.deltas) - 1) : t.deltas[i] <= t.deltas[i + 1]

\* every bucket of the ingredients f holds a whole number of entries
BucketsAligned(f) ==
    LET size == f.header.key_size - (f.table.depth \div 8) + f.header.payload_size
    IN  \A i \in 1..(Len(f.table.deltas) - 1) :
            (f.table.deltas[i + 1] - f.table.deltas[i]) % size = 0

\* C11 (as the code has it): Index::open answers Ok or one of the typed
\* errors, and answers Ok only for a file whose header lines are well formed
\* (magic, graphic key-type name, newline-terminated inside the 4096-byte
\* limit) and whose table is well formed (depth at most 24, (depth / 8) + 1
\* at most the key size, 2^depth + 1 offsets, never decreasing); a failed
\* open leaves no reader.  Bucket alignment is no part of what open checks.
C11_OpenRejectsMalformed ==
    res.op = "open" =>
        /\ res.tag \in OpenErrors \cup {"Ok"}
        /\ res.tag = "Ok" => LinesWellFormed(res.arg[1]) /\ TableWellFormed(res.arg[1])
        /\ res.tag # "Ok" => index = None /\ phase = "open_failed"
        /\ res.tag = "Ok" => index # None /\ phase = "opened"

\* C11 (as stated): Index::open moreover answers Ok only when every bucket's
\* length is a multiple of the entry size.
C11_OpenRejectsMisaligned ==
    (res.op = "open" /\ res.tag = "Ok") => BucketsAligned(res.arg[1])

\* open has rejected a file with the right magic and key type whose
\* description line runs past the header limit
C11_Witness ==
    /\ res.op = "open" /\ res.tag = "InvalidHeader" /\ phase = "open_failed"
    /\ res.arg[1].header.magic = INDEX_V0_MAGIC \o <<NEWLINE>>
    /\ res.arg[1].header.key_type = ContentTypeName \o <<NEWLINE>>

---------------------------------------------------------------------------
(* Queries on opened files no builder wrote *)

\* depth, entry size and bucket count of the opened file
OpenedDepth == database.table[1].depth[1]
OpenedEntrySize == index[1].key_size - (OpenedDepth \div 8) + index[1].payload_size
OpenedBuckets == 0..((2 ^ OpenedDepth) - 1)

\* the length of bucket b is no multiple of the entry size
Misaligned(b) == (FileTable[b + 2] - FileTable[b + 1]) % OpenedEntrySize # 0

\* bucket b holds keys whose leading bits are the leading bits of q
InPrefixRange(b, q, bits) ==
    LET m == IF bits < OpenedDepth THEN bits ELSE OpenedDepth
    IN  b \div (2 ^ (OpenedDepth - m)) = LeadingBits(q, m)

\* C12: a lookup whose key's bucket has a length that is no multiple of the
\* entry size returns InvalidSegmentLength without a single read (and so
\* without a comparison), and returns it in no other case; lookup_range
\* yields InvalidSegmentLength once for every such bucket of its range.
C12_InvalidSegmentLength ==
    /\ res.op = "lookup" =>
          IF Misaligned(LeadingBits(res.arg[1], OpenedDepth))
          THEN res.tag = "InvalidSegmentLength" /\ res.reads = << >>
          ELSE res.tag # "InvalidSegmentLength"
    /\ res.op = "lookup_range" =>
          LET IsError(item) == item = <<"InvalidSegmentLength">>
              bad == {b \in OpenedBuckets :
                         InPrefixRange(b, res.arg[1], res.arg[2]) /\ Misaligned(b)}
          IN  Len(SelectSeq(res.val, IsError)) = Cardinality(bad)

\* a lookup_range that yielded an entry of one bucket and then
\* InvalidSegmentLength for the next bucket
C12_Witness ==
    /\ res.op = "lookup_range"
    /\ Len(res.val) = 2
    /\ Len(res.val[1]) = 2
    /\ res.val[2] = <<"InvalidSegmentLength">>

---------------------------------------------------------------------------
(* The scan of a point lookup *)

\* the added entries in the bucket of key, and those of them below key
SameBucket(key) ==
    LET D == builder.table.depth
        Test(e) == LeadingBits(e[1], D) = LeadingBits(key, D)
    IN  SelectSeq(added, Test)

BelowInBucket(key) ==
    LET Test(e) == KeyLess(e[1], key)
    IN  SelectSeq(SameBucket(key), Test)

\* C13: a point lookup on a built file reads whole entries of the bucket
\* [table[b], table[b+1]) of its key and nothing else: one read of exactly
\* entry_size bytes for every stored entry below the key and one more for the
\* first entry that is not below it, in file order from the start of the
\* bucket, never past its end; it returns the payload when that entry is the
\* key and not found when it is greater or the bucket is exhausted.
C13_BoundedScan ==
    res.op = "lookup" =>
       LET key == res.arg[1]
           b == LeadingBits(key, builder.table.depth)
           s == FileTable[b + 1]
           e == FileTable[b + 2]
           below == Len(BelowInBucket(key))
           scanned == IF below < Len(SameBucket(key)) THEN below + 1 ELSE below
       IN  /\ Len(res.reads) = scanned
           /\ Len(res.reads) <= (e - s) \div ExpectedEntrySize
           /\ \A i \in 1..Len(res.reads) :
                 /\ res.reads[i][1] = s + (i - 1) * ExpectedEntrySize
                 /\ res.reads[i][2] = ExpectedEntrySize
                 /\ res.reads[i][1] + res.reads[i][2] <= e
           /\ res.tag \in {"Some", "None"}
           /\ res.tag = "Some" <=> \E i \in 1..Len(added) : added[i][1] = key

---------------------------------------------------------------------------
(* The bucket range of a prefix query *)

\* the first 24 bits of a key, zero-padded, as a number
First24(key) == KeyValue([i \in 1..3 |-> IF i <= Len(key) THEN key[i] ELSE 0])

\* the first bucket and the number of buckets the prefix of bits bits of key
\* covers in a table of depth depth
FirstBucket(depth, key, bits) ==
    IF bits >= depth THEN First24(key) \div (2 ^ (24 - depth))
    ELSE (First24(key) \div (2 ^ (24 - bits))) * (2 ^ (depth - bits))

BucketCount(depth, bits) == IF bits >= depth THEN 1 ELSE 2 ^ (depth - bits)

\* C14: the buckets a prefix query of k bits scans in a table of depth D are
\* the single bucket of q when k >= D, and otherwise the 2^(D-k) consecutive
\* buckets from the bucket of q's k-bit prefix zero-extended on (all 2^D
\* buckets when k = 0); next yields them in ascending order, each once, and
\* None after the last.
C14_BucketRange ==
    res.op = "prefix_range" =>
       LET depth == res.arg[1]
           first == FirstBucket(depth, res.arg[2], res.arg[3])
           count == BucketCount(depth, res.arg[3])
       IN  /\ \A i \in 1..Len(res.val) : res.val[i] = first + (i - 1)
           /\ Len(res.val) <= count
           /\ res.nones > 0 => Len(res.val) = count
           /\ Len(res.val) < count => res.nones = 0
           /\ LimPrefixIndex([raw |-> reader[1].last, depth |-> depth]) = first + count - 1
           /\ first + count <= 2 ^ depth

\* next has yielded the four buckets of a two-bit-short prefix and then None
C14_Witness ==
    /\ res.op = "prefix_range"
    /\ res.arg[1] - res.arg[3] = 2
    /\ Len(res.val) = 4
    /\ res.nones > 0

---------------------------------------------------------------------------
(* The end of a prefix enumeration *)

\* the calls so far that returned Ok(None)
Ended == {i \in 1..Len(res.why) : res.why[i] \in {"Break", "End"}}

\* C15: on a built file the iterator of lookup_range is finite: its
\* call number MaxEntries + 1 at the latest returns None; and from a call that
\* returned None on, be it because a stored entry compared greater than the
\* query prefix or because the buckets are exhausted, every later call
\* returns None and never another item.
C15_WalkEnds ==
    /\ [](res.op = "walk" /\ Len(res.why) >= MaxEntries + 1 => res.tag = "None")
    /\ [](res.op = "walk" => \A i \in Ended : \A j \in i..Len(res.why) : j \in Ended)
    /\ [][(res.op = "walk" /\ res.tag = "None") =>
              (res'.op = "walk" /\ res'.tag = "None" /\ res'.val = << >>)]_vars

\* an entry compared greater than the query prefix, and the iterator was
\* called again
C15_Witness ==
    /\ res.op = "walk"
    /\ \E i \in Ended : res.why[i] = "Break" /\ i < Len(res.why)

---------------------------------------------------------------------------
(* The bucket index *)

\* C16: for every depth D in 0..24 and every key, the bucket index is the
\* big-endian u32 of the key's first four bytes, zero-padded, shifted right
\* by 32 - D.  The shift is by 8 bits at least, so this is the first three
\* bytes as a 24-bit number shifted right by 24 - D.  The index is below 2^D,
\* it is 0 when D = 0, and the slots index and index + 1 are among the
\* 2^D + 1 slots 0..2^D of the table.
C16_BucketIndex ==
    res.op = "index" =>
       LET D == res.arg[1]
           expected == First24(res.arg[2]) \div (2 ^ (24 - D))
       IN  \A i \in 1..2 :
              /\ res.val[i] = expected
              /\ res.val[i] >= 0 /\ res.val[i] < 2 ^ D
              /\ D = 0 => res.val[i] = 0
              /\ res.val[i] + 1 <= 2 ^ D

\* the index of a two-byte key at depth 9 takes the first bit of the second
\* byte
C16_Witness ==
    /\ res.op = "index"
    /\ res.arg = <<9, <<129, 255>>>>
    /\ res.val = <<259, 259>>

---------------------------------------------------------------------------
(* The hash list *)

\* C17: for every prefix length TypedListWriter::create accepts and every
\* ascending sequence of entries under the prefix, TypedListReader::open on
\* the written bytes succeeds and reports the description, the mtime and the
\* prefix the writer was given, and next_entry returns the entries added, in
\* order, and then None.
C17_ListRoundTrip ==
    /\ res.op = "list_open" =>
          /\ res.tag = "Ok"
          /\ reader[1].header.description = res.arg[1]
          /\ reader[1].header.mtime = res.arg[2]
          /\ reader[1].prefix.key = res.arg[3].key
          /\ reader[1].prefix.bits = res.arg[3].bits
    /\ res.op = "list_next" =>
          /\ Len(res.val) = Min(res.calls, Len(added))
          /\ \A i \in 1..Len(res.val) : res.val[i] = added[i]
          /\ res.calls > Len(added) => res.tag = "None"

\* C18: on a freshly opened hash list with ascending entries lookup(k)
\* returns Some(payload) exactly when an entry with key k was added, with the
\* payload of that entry; it reads the entries less than k and the first
\* entry that is not, and returns None when that entry is greater than k or
\* when the file ends.
C18_ListLookup ==
    res.op = "list_lookup" =>
       LET key == res.arg[1]
           hits == {i \in 1..Len(added) : added[i][1] = key}
           less == {i \in 1..Len(added) : KeyLess(added[i][1], key)}
       IN  /\ res.tag \in {"Some", "None"}
           /\ res.tag = "Some" <=> hits # {}
           /\ \A i \in hits : res.val = added[i][2]
           /\ res.scanned = Min(Cardinality(less) + 1, Len(added))

\* lookup has returned None at the first of two entries, which is greater
\* than the key
C18_Witness ==
    /\ res.op = "list_lookup" /\ res.tag = "None"
    /\ res.scanned = 1
    /\ Len(added) = 2
    /\ KeyLess(res.arg[1], added[1][1])


\* what a positional read of buf_len bytes at pos may return: Ok with the
\* window data of the file at pos, empty only for an empty buffer or at the end
DirectRead(pos, buf_len, data) ==
    /\ data.len <= buf_len
    /\ data.len <= (IF pos >= database.len THEN 0 ELSE database.len - pos)
    /\ data.len > 0 => data.origin = pos
    /\ (buf_len > 0 /\ pos < database.len) => data.len > 0

\* C19: a read of the paged reader at a position at or beyond the end of the
\* file, page-aligned or not, in the last partial page or after it, returns 0
\* bytes without a panic and leaves the position where it was.
C19_ReadAtEof ==
    (res.op = "read" /\ res.arg[2] >= database.len) =>
        /\ res.tag = "Ok"
        /\ res.val.len = 0
        /\ reader[1].position = res.arg[2]

\* C20: for every cache capacity and every sequence of seeks and reads over
\* the immutable file, a read returns the bytes of the file at the reader's
\* position, as a positional read without the cache does, and the position
\* advances by the number of bytes returned.
C20_CacheTransparent ==
    res.op = "read" =>
        /\ res.tag = "Ok"
        /\ DirectRead(res.arg[2], res.arg[1], res.val)
        /\ reader[1].position = res.arg[2] + res.val.len


\* the position a seek asks for
SeekTarget ==
    CASE res.arg[1] = "Start" -> res.arg[2]
      [] res.arg[1] = "Current" -> res.arg[3] + res.arg[2]
      [] OTHER -> database.len + res.arg[2]

\* C21: a relative or end-relative seek to a target below 0 or above u64::MAX
\* fails with the error Other and leaves the position as it was; every
\* successful seek sets the position to the target and returns it.
C21_SeekOverflow ==
    res.op = "seek" =>
        /\ (res.arg[1] # "Start" /\ (SeekTarget < 0 \/ SeekTarget > PositionMax)) =>
               (res.tag = "Other" /\ reader[1].position = res.arg[3])
        /\ res.tag = "Ok" => (reader[1].position = SeekTarget /\ res.val = <<SeekTarget>>)

\* the bytes of the file in the page: min(PAGE_SIZE, file_len - page_offset)
PageBytes(page) ==
    LET page_offset == page * PAGE_SIZE
    IN  IF page_offset >= database.len THEN 0 ELSE Min(PAGE_SIZE, database.len - page_offset)

\* C22: read_at_till_eof retries Interrupted and assembles the page from the
\* short reads, so every cached page holds min(PAGE_SIZE, file_len - offset)
\* bytes from its offset; a read fails exactly when read_at returned another
\* error, at once, and then the cache and the position are as before.
C22_ReadAtTillEof ==
    /\ [](res.op = "read" =>
            /\ res.tag = "Err" <=> (\E i \in 1..Len(res.arg[3]) : res.arg[3][i] = OtherError)
            /\ res.tag = "Err" => res.arg[3][Len(res.arg[3])] = OtherError
            /\ \A i \in 1..Len(reader[1].cache) :
                  reader[1].cache[i].buf = [origin |-> reader[1].cache[i].page * PAGE_SIZE,
                                            len |-> PageBytes(reader[1].cache[i].page)])
    /\ [][(res'.op = "read" /\ res'.tag = "Err") => reader' = reader]_vars

C22_Witness ==
    /\ res.op = "read"
    /\ res.tag = "Ok"
    /\ res.arg[3] = <<ShortRead(2), Interrupted, ShortRead(1)>>
    /\ database.len = PAGE_SIZE + 5
    /\ reader[1].cache[1].buf.len = 5

\* what the query returns when it runs alone
Alone(q) ==
    IF q.kind = "lookup"
    THEN LET r == TypedLookup(database, index[1], q.arg[1])
         IN  <<[tag |-> r.tag, val |-> r.val]>>
    ELSE LookupRange(database, index[1], q.arg[1], q.arg[2])

\* C23: in every interleaving of the reads of two queries on one opened
\* index, each query returns what it returns when run alone, a walk yielding
\* a prefix of its items at every point, and no step changes the index or
\* the file.
C23_Independent ==
    /\ [](phase = "par" =>
            \A i \in 1..Len(reader[1].queries) :
               LET q == reader[1].queries[i]
                   alone == Alone(q)
               IN  /\ q.done => q.items = alone
                   /\ Len(q.items) <= Len(alone)
                   /\ q.items = SubSeq(alone, 1, Len(q.items)))
    /\ [][phase = "par" => (index' = index /\ database' = database)]_vars

C23_Witness ==
    /\ phase = "par"
    /\ reader[1].switches >= 3
    /\ \A i \in 1..2 : reader[1].queries[i].done
    /\ reader[1].queries[1].items[1].tag = "Some"
    /\ reader[1].queries[2].kind = "walk"
    /\ Len(reader[1].queries[2].items) = 2

\* the writes of the add_entry calls, three for every entry, and the file
\* offset at which the i-th entry was written
EntryWrites ==
    LET Test(w) == w.kind = "entry"
    IN  SelectSeq(wlog, Test)
EntryOffset(i) ==
    Len(OfKind("header")) + Len(Flatten(SubSeq(EntryWrites, 1, 3 * (i - 1))))

\* the offset of the first entry written with bucket index >= b, or the end
\* of the entry stream
FirstAtOrAfter(b) ==
    LET later == {i \in 1..Len(added) : LeadingBits(added[i][1], builder.table.depth) >= b}
    IN  IF later = {} THEN Len(OfKind("header")) + Len(OfKind("entry"))
        ELSE EntryOffset(CHOOSE i \in later : \A j \in later : i <= j)

\* the lengths of the buckets lo to hi, added up
RECURSIVE SumBucketLengths(_, _)
SumBucketLengths(lo, hi) ==
    IF lo > hi THEN 0
    ELSE IF lo = hi THEN FileTable[lo + 2] - FileTable[lo + 1]
    ELSE LET mid == (lo + hi) \div 2
         IN  SumBucketLengths(lo, mid) + SumBucketLengths(mid + 1, hi)

\* C24: after finish table[b], for every slot b up to 2^D, is the offset at
\* which the first entry with bucket index >= b was written, or the end of
\* the entry stream; a bucket without entry has table[b] = table[b+1],
\* table[0] is the end of the header and the bucket lengths add up to the
\* size of the entry stream.
C24_TableSlots ==
    HasFile =>
       LET D == builder.table.depth
       IN  /\ Len(FileTable) = (2 ^ D) + 1
           /\ \A b \in 0..(2 ^ D) : FileTable[b + 1] = FirstAtOrAfter(b)
           /\ \A b \in 0..((2 ^ D) - 1) :
                 (\A i \in 1..Len(added) : LeadingBits(added[i][1], D) # b) =>
                     FileTable[b + 1] = FileTable[b + 2]
           /\ FileTable[1] = Len(OfKind("header"))
           /\ SumBucketLengths(0, (2 ^ D) - 1) = Len(OfKind("entry"))

\* a finished table of depth 3 with the keys 0x81 and 0xff: buckets 0 to 3
\* before the first key and buckets 5 and 6 between the two are empty
C24_Witness ==
    /\ phase = "finished"
    /\ builder.table.depth = 3
    /\ Len(added) = 2
    /\ added[1][1] = <<129>> /\ added[2][1] = <<255>>
    /\ FileTable[1] = FileTable[5]
    /\ FileTable[5] < FileTable[6]
    /\ FileTable[6] = FileTable[8]
    /\ FileTable[8] < FileTable[9]

\* the i-th nibble of the array, from 0, as a hex digit
NibbleAt(data, i) ==
    LET byte == data[(i \div 2) + 1]
        n == IF i % 2 = 0 THEN byte \div 16 ELSE byte % 16
    IN  IF n < 10 THEN 48 + n ELSE 87 + n

\* the digits of the nibbles holding a bit of [s, e)
RangeDigits(data, s, e) ==
    IF s >= e THEN << >>
    ELSE [i \in 1..(((e + 3) \div 4) - (s \div 4)) |-> NibbleAt(data, (s \div 4) + i - 1)]

\* C25: for every byte array and bit range [s, e) with s <= e <= 8*len,
\* hex_bit_range renders the nibbles holding a bit of the range, in order,
\* ceil(e/4) - floor(s/4) digits when s < e and none for an empty range,
\* without a panic.
C25_HexBitRange ==
    (/\ res.op = "hex_bit_range"
     /\ res.arg[2] <= res.arg[3]
     /\ res.arg[3] <= 8 * Len(res.arg[1])) =>
        /\ res.tag = "Ok"
        /\ res.val = RangeDigits(res.arg[1], res.arg[2], res.arg[3])

\* the bucket a walk is scanning, the entries it has left there, and the
\* bucket's offsets in the table of the file
WalkBucket == LimPrefixIndex(reader[1].walk.current_prefix_num_entries[1][1])
WalkLeft == reader[1].walk.current_prefix_num_entries[1][2]
WalkBucketStart == FileTable[WalkBucket + 1]
WalkBucketEnd == FileTable[WalkBucket + 2]

\* C26: in a prefix-range walk every entry read takes entry_size =
\* |K| - D/8 + |P| bytes, so after n entries of bucket b the reader is at
\* table[b] + n * entry_size and never beyond table[b+1], for every D.
C26_WalkReads ==
    (/\ phase = "walking"
     /\ res.op = "walk"
     /\ res.tag = "Some"
     /\ reader[1].walk.current_prefix_num_entries # None) =>
        LET total == (WalkBucketEnd - WalkBucketStart) \div ExpectedEntrySize
        IN  /\ reader[1].walk.position =
                  WalkBucketStart + (total - WalkLeft) * ExpectedEntrySize
            /\ reader[1].walk.position <= WalkBucketEnd

\* the buckets of the range and how many of them are still to come
DequeFirst == FirstBucket(res.arg[1], res.arg[2], res.arg[3])
DequeCount == BucketCount(res.arg[1], res.arg[3])
DequeLeft == DequeCount - Len(res.val) - Len(res.back)

\* C27: in every interleaving of next and next_back on a bucket prefix range
\* each bucket is yielded once, ascending from the front by next and
\* descending from the back by next_back, and None comes only when the two
\* ends have met and from then on always, also for ranges with bucket 0 or
\* the last bucket.
C27_BothEnds ==
    /\ [](res.op = "prefix_deque" =>
            /\ \A i \in 1..Len(res.val) : res.val[i] = DequeFirst + (i - 1)
            /\ \A j \in 1..Len(res.back) : res.back[j] = DequeFirst + DequeCount - j
            /\ DequeLeft >= 0
            /\ res.nones > 0 => DequeLeft = 0)
    /\ [][(res.op = "prefix_deque" /\ DequeLeft = 0 /\ res'.tag # "Len") =>
              (res'.tag = "None" /\ res'.val = res.val /\ res'.back = res.back)]_vars

\* the four buckets of a range from bucket 0 yielded from both ends in turn,
\* and None after they met
C27_Witness ==
    /\ res.op = "prefix_deque"
    /\ DequeFirst = 0
    /\ Len(res.val) = 2 /\ Len(res.back) = 2
    /\ res.nones = 2

\* C28: at every point of the iteration, also when the range is exhausted,
\* len and size_hint are the number of items still to come, computed
\* without underflow.
C28_Len ==
    (res.op = "prefix_deque" /\ res.tag = "Len") =>
        res.len = [tag |-> "Ok", val |-> DequeLeft]

\* the bytes of an entry in the list, where the entries start in the file,
\* and the entries that lie before a position
ListEntryBytes == builder.key_size - (builder.prefix.bits \div 8) + builder.payload_size
ListEntriesStart == Len(database.data) - Len(added) * ListEntryBytes
ConsumedAt(pos) == (pos - ListEntriesStart) \div ListEntryBytes

\* C29: lookup goes on from where the reader is and consumes the entries up
\* to and including the first one not less than the key; no call of lookup
\* or next_entry returns an entry an earlier call consumed, and lookup(k)
\* returns Some(p) only for an entry (k, p) not consumed before.
C29_SinglePass ==
    (res.op = "list_call" /\ ListEntryBytes > 0) =>
       LET before == ConsumedAt(res.from)
           after == ConsumedAt(res.to)
           ahead == {i \in (before + 1)..Len(added) :
                        res.arg[1] = "next_entry" \/ ~KeyLess(added[i][1], res.arg[2])}
           stop == IF ahead = {} THEN Len(added)
                   ELSE CHOOSE i \in ahead : \A j \in ahead : i <= j
       IN  /\ res.from = ListEntriesStart + before * ListEntryBytes
           /\ res.to = ListEntriesStart + after * ListEntryBytes
           /\ after = stop
           /\ res.tag \in {"Some", "None"}
           /\ res.tag = "Some" =>
                 /\ after > before
                 /\ IF res.arg[1] = "lookup"
                    THEN added[after] = <<res.arg[2], res.val>>
                    ELSE added[after] = res.val
           /\ (res.arg[1] = "lookup" /\ res.tag = "None") =>
                 \A i \in (before + 1)..after : added[i][1] # res.arg[2]

\* a second lookup returns None for a key whose entry the first lookup, of a
\* greater key that is not in the list, has consumed
C29_Witness ==
    /\ res.op = "list_call"
    /\ res.arg[1] = "lookup"
    /\ res.tag = "None"
    /\ ConsumedAt(res.from) = 2
    /\ \E i \in 1..2 : added[i][1] = res.arg[2]

\* C30: create returns InvalidDescription for every description with a
\* newline in it, a single trailing newline included, so that every header
\* written has three lines and open reads the description back.
C30_CreateRejectsNewline ==
    /\ (res.op = "list_create" /\ Contains(res.arg[1], NEWLINE)) =>
          res.tag = "InvalidDescription"
    /\ res.op = "list_open" =>
          (res.tag = "Ok" \/ res.tag = "InvalidKeyLength") /\
          (res.tag = "Ok" => reader[1].header.description = res.arg[1])
====
